---- MODULE Spec2Model ----
(***************************************************************************)
(* Model of the resource-enrichment pipeline of LearnStream's backend:     *)
(*   utils/urlValidation  (src/unnamed/part_001): validateUrl,             *)
(*       validateYouTubeUrl, validateResourcesInParallel                   *)
(*   routes/resources     (src/unnamed/part_004): generateResourcesForStep,*)
(*       gatherAndValidateResources, the routes that write a plan          *)
(*   routes/ai-assistant  (src/routes/ai-assistant.js): extend_roadmap,    *)
(*       add_step                                                          *)
(* Specifications:                                                         *)
(*   SpecChecker    one call of validateUrl, every outbound call explicit  *)
(*   SpecValidator  one call of validateResourcesInParallel                *)
(*   SpecStep       one run of gatherAndValidateResources, one-step plan   *)
(*   SpecRun        one run over a two-step plan                           *)
(*   SpecPlan       create, retry, extend, add_step and the runs they      *)
(*                  start, interleaved                                     *)
(*   SpecRetry      retries and extensions one after the other,            *)
(*                  deterministic generator, links and storage             *)
(***************************************************************************)
EXTENDS Integers, Sequences, FiniteSets, TLC

VARIABLES
    \* ---- validateUrl (link checker) ----
    url,          \* the URL under check
    maxRetries,   \* validateUrl's maxRetries argument
    attempt,      \* the loop counter `attempt` (1-based)
    cpc,          \* position in validateUrl
    result,       \* validateUrl's return value, "none" until it returns
    log,          \* history: every outbound call and every backoff wait
    \* ---- validateResourcesInParallel (validator) ----
    resources,    \* the argument `resources`
    concurrency,  \* the argument `concurrency`
    vpc,          \* position in validateResourcesInParallel
    chunkIdx,     \* index of the chunk the for-of loop is at (1-based)
    inflight,     \* indices (into resources) of checks started and not returned
    results,      \* results of the current chunk: index -> resource + isValid
    validatedResources, \* the accumulator `validatedResources`
    returned,     \* the value returned to the caller, <<>> until it returns
    calls,        \* history: every validateUrl invocation, in order
    verdict,      \* history: index -> what validateUrl returned for it
    \* ---- gatherAndValidateResources (step enricher / orchestrator) ----
    db,           \* the stored Resource document, or NoDoc
    doc,          \* per run: the run's in-memory document
    gpc,          \* per run: position in gatherAndValidateResources
    stepIdx,      \* per run: the loop counter i (1-based here)
    generated,    \* per run: generatedResources of the current step
    validated,    \* per run: validatedResources of the current step
    checked,      \* history: per step, the candidates handed to the validator
    outcome,      \* history: per step, how the step's enrichment ended
    faulty,       \* history: per run, whether a find or save of the run failed
    \* ---- the routes that write a stored plan (create, retry, extend, add_step) ----
    hpc,          \* position of the request in flight, "idle" when none
    hdoc,         \* the request handler's in-memory document
    requests,     \* how many retry, extend and add_step requests were received
    answered,     \* the status the last request was answered with, or "none"
    origin,       \* history: per run, the request that started it
    \* ---- what the program runs in: network, storage, clients ----
    net,          \* what is settled about them for the whole behaviour
    \* ---- scheduled notifications (one notification) ----
    notif,        \* its stored status, its timers, the requests in flight
    \* ---- UserProgress (the single user's record) ----
    progress      \* the record's streak fields and counters, and the date

checkerVars   == <<url, maxRetries, attempt, cpc, result, log>>
validatorVars == <<resources, concurrency, vpc, chunkIdx, inflight, results,
                   validatedResources, returned, calls, verdict>>
routeVars     == <<hpc, hdoc, requests, answered, origin>>
enricherVars  == <<db, doc, gpc, stepIdx, generated, validated, checked, outcome,
                   faulty, routeVars, net>>
appVars       == <<notif, progress>>
vars == <<checkerVars, validatorVars, enricherVars, appVars>>

\* no notification exists; its timers and handlers are idle
IdleNotif ==
    [status |-> "none", due |-> FALSE, timer |-> "none", skill |-> "none",
     tpc |-> "idle", dpc |-> "idle", ipc |-> "idle", answer |-> "none",
     cancelled |-> FALSE, restarts |-> 0]

NoDate == -1

\* new UserProgress({ oderId: "default" }): the schema's defaults
NewProgress ==
    [currentStreak |-> 0, longestStreak |-> 0, lastActivityDate |-> NoDate,
     totalStepsCompleted |-> 0, totalRoadmapsCreated |-> 0, totalNotesAdded |-> 0,
     activities |-> <<>>, today |-> 0, calls |-> 0]

IdleAppVars == notif = IdleNotif /\ progress = NewProgress

(***************************************************************************)
(* Bounds of the model                                                     *)
(***************************************************************************)
MaxRetries == 3      \* validateUrl is explored for maxRetries in 0..MaxRetries

DefaultMaxRetries == 3
BackoffBaseMs == 100

(***************************************************************************)
(* URLs.  A well-formed URL is a hostname and a pathname; the pathname is  *)
(* a sequence of tokens so that String.includes is a real substring test.  *)
(***************************************************************************)
Malformed == [host |-> "", path |-> <<>>]

Hosts == {"www.youtube.com", "youtube.com", "youtu.be", "m.youtube.com",
          "example.com"}

Paths == { <<"/", "@", "x">>,
           <<"/", "c", "/", "x">>,
           <<"/", "channel", "/", "x">>,
           <<"/", "user", "/", "x">>,
           <<"/", "watch">>,
           <<"/", "c">> }

URLs == {[host |-> h, path |-> p] : h \in Hosts, p \in Paths} \cup {Malformed}

\* new URL(url) throws for a string that is no URL
Parses(u) == u # Malformed

\* String.prototype.includes on token sequences
Includes(s, sub) ==
    \E i \in 0..(Len(s) - Len(sub)) :
        \A j \in 1..Len(sub) : s[i + j] = sub[j]

isYouTubeUrl(u) ==
    IF ~Parses(u) THEN FALSE
    ELSE \/ u.host = "www.youtube.com"
         \/ u.host = "youtube.com"
         \/ u.host = "youtu.be"
         \/ u.host = "m.youtube.com"

isYouTubeChannelUrl(u) ==
    IF ~Parses(u) THEN FALSE
    ELSE \/ Includes(u.path, <<"/", "@">>)
         \/ Includes(u.path, <<"/", "c", "/">>)
         \/ Includes(u.path, <<"/", "channel", "/">>)
         \/ Includes(u.path, <<"/", "user", "/">>)

(***************************************************************************)
(* Outcomes of one outbound fetch: it throws (abort on timeout, network    *)
(* error) or answers with a status; an oEmbed answer also carries a body.  *)
(***************************************************************************)
NoBody == [parses |-> FALSE, title |-> "absent", author_name |-> "absent"]

Threw(err)      == [err |-> err, status |-> 0, body |-> NoBody]
Answered(s)     == [err |-> "none", status |-> s, body |-> NoBody]
AnsweredWith(s, b) == [err |-> "none", status |-> s, body |-> b]

Statuses == {200, 399, 400, 403, 405, 500}
FieldValues == {"absent", "empty", "text"}
Bodies == {NoBody} \cup
          {[parses |-> TRUE, title |-> t, author_name |-> a] :
              t \in FieldValues, a \in FieldValues}

\* what fetch(url, ...) can do: a string that is no URL makes fetch throw
FetchOutcomes(u) ==
    IF ~Parses(u) THEN {Threw("network")}
    ELSE {Threw("timeout"), Threw("network")} \cup {Answered(s) : s \in Statuses}

\* what the oEmbed lookup can do (the oEmbed URL itself is always well formed)
OEmbedOutcomes ==
    {Threw("timeout"), Threw("network")} \cup
    {Answered(s) : s \in {401, 404}} \cup
    {AnsweredWith(200, b) : b \in Bodies}

Throws(o) == o.err # "none"

\* response.status >= 200 && response.status < 400
StatusOk(s) == s >= 200 /\ s < 400

\* JavaScript truthiness of a string-valued JSON field
Truthy(f) == f = "text"


(***************************************************************************)
(* validateYouTubeUrl(url, timeout): one call, as a function of what its   *)
(* single outbound fetch does.  Everything is inside one try/catch.        *)
(***************************************************************************)
\* which request validateYouTubeUrl issues
YouTubeCallKind(u) == IF isYouTubeChannelUrl(u) THEN "HEAD" ELSE "OEMBED"

YouTubeOutcomes(u) ==
    IF isYouTubeChannelUrl(u) THEN FetchOutcomes(u) ELSE OEmbedOutcomes

\* seeded fault: the channel probe accepts status 200 only
validateYouTubeUrlOnly200(u, o) ==
    IF Throws(o) THEN FALSE
    ELSE IF isYouTubeChannelUrl(u) THEN o.status = 200
    ELSE IF o.status = 200
         THEN o.body.parses /\ Truthy(o.body.title) /\ Truthy(o.body.author_name)
         ELSE FALSE

\* seeded fault: the metadata check looks at the title alone
validateYouTubeUrlTitleOnly(u, o) ==
    IF Throws(o) THEN FALSE
    ELSE IF isYouTubeChannelUrl(u) THEN StatusOk(o.status)
    ELSE IF o.status = 200
         THEN o.body.parses /\ Truthy(o.body.title)
         ELSE FALSE

validateYouTubeUrl(u, o) ==
    IF Throws(o) THEN FALSE                       \* catch (error) { return false }
    ELSE IF isYouTubeChannelUrl(u) THEN StatusOk(o.status)
    ELSE IF o.status = 200
         THEN IF o.body.parses
              THEN Truthy(o.body.title) /\ Truthy(o.body.author_name)
              ELSE FALSE                          \* response.json() threw
         ELSE FALSE

(***************************************************************************)
(* validateUrl(url, maxRetries, timeout)                                   *)
(***************************************************************************)
\* seeded fault: the exponent counts attempts from zero
BackoffDelayZeroBased(a) == (2 ^ (a - 1)) * BackoffBaseMs

\* seeded fault: the delay does not grow
BackoffDelayConstant(a) == 2 * BackoffBaseMs

\* Math.pow(2, attempt) * 100
BackoffDelay(a) == (2 ^ a) * BackoffBaseMs

Call(kind, a, o) == [kind |-> kind, attempt |-> a, out |-> o, ms |-> 0]
Wait(a, ms)      == [kind |-> "WAIT", attempt |-> a, out |-> Threw("none"), ms |-> ms]

\* seeded fault: the GET fallback is tried after any 4xx answer
HeadNextAny4xx(o) ==
    IF Throws(o) THEN "catch"
    ELSE IF StatusOk(o.status) THEN "return_true"
    ELSE IF o.status >= 400 /\ o.status < 500 THEN "get"
    ELSE "next"

\* where control goes after the HEAD probe of the generic path
HeadNext(o) ==
    IF Throws(o) THEN "catch"
    ELSE IF StatusOk(o.status) THEN "return_true"
    ELSE IF o.status = 405 \/ o.status = 403 THEN "get"
    ELSE "next"

\* seeded fault: the GET fallback is issued outside the try block
GetNextNoCatch(o) ==
    IF Throws(o) THEN "thrown"
    ELSE IF StatusOk(o.status) THEN "return_true"
    ELSE "next"

\* where control goes after the GET fallback of the generic path
GetNext(o) ==
    IF Throws(o) THEN "catch"
    ELSE IF StatusOk(o.status) THEN "return_true"
    ELSE "next"

\* the for loop's increment and test: another attempt, or `return false`
NextAttempt(label) ==
    /\ attempt' = attempt + 1
    /\ IF attempt + 1 <= maxRetries
       THEN cpc' = label /\ result' = result
       ELSE cpc' = "done" /\ result' = FALSE

Goto(label) ==
    CASE label = "return_true" -> cpc' = "done" /\ result' = TRUE /\ attempt' = attempt
      [] label = "next"        -> NextAttempt("head")
      [] OTHER                 -> cpc' = label /\ UNCHANGED <<result, attempt>>

\* entering validateUrl: the isYouTubeUrl test and the first loop test
ValidateUrlEnter ==
    /\ cpc = "entry"
    /\ attempt' = 1
    /\ IF 1 <= maxRetries
       THEN /\ cpc' = IF isYouTubeUrl(url) THEN "yt_loop" ELSE "head"
            /\ result' = result
       ELSE cpc' = "done" /\ result' = FALSE
    /\ UNCHANGED <<url, maxRetries, log, validatorVars, enricherVars, appVars>>

\* one iteration of the YouTube loop up to the backoff
YouTubeAttempt ==
    /\ cpc = "yt_loop"
    /\ \E o \in YouTubeOutcomes(url) :
        /\ log' = Append(log, Call(YouTubeCallKind(url), attempt, o))
        /\ IF validateYouTubeUrl(url, o)
           THEN cpc' = "done" /\ result' = TRUE /\ attempt' = attempt
           ELSE IF attempt < maxRetries
                THEN cpc' = "yt_backoff" /\ UNCHANGED <<result, attempt>>
                ELSE NextAttempt("yt_loop")
    /\ UNCHANGED <<url, maxRetries, validatorVars, enricherVars, appVars>>

\* the backoff of the YouTube loop
YouTubeBackoff ==
    /\ cpc = "yt_backoff"
    /\ log' = Append(log, Wait(attempt, BackoffDelay(attempt)))
    /\ NextAttempt("yt_loop")
    /\ UNCHANGED <<url, maxRetries, validatorVars, enricherVars, appVars>>

\* generic path: the HEAD probe
GenericHead ==
    /\ cpc = "head"
    /\ \E o \in FetchOutcomes(url) :
        /\ log' = Append(log, Call("HEAD", attempt, o))
        /\ Goto(HeadNext(o))
    /\ UNCHANGED <<url, maxRetries, validatorVars, enricherVars, appVars>>

\* generic path: the GET fallback after a 405/403 probe
GenericGet ==
    /\ cpc = "get"
    /\ \E o \in FetchOutcomes(url) :
        /\ log' = Append(log, Call("GET", attempt, o))
        /\ Goto(GetNext(o))
    /\ UNCHANGED <<url, maxRetries, validatorVars, enricherVars, appVars>>

\* generic path: the catch block (backoff only when an attempt is left)
GenericCatch ==
    /\ cpc = "catch"
    /\ log' = IF attempt < maxRetries
              THEN Append(log, Wait(attempt, BackoffDelay(attempt)))
              ELSE log
    /\ NextAttempt("head")
    /\ UNCHANGED <<url, maxRetries, validatorVars, enricherVars, appVars>>

InitCheckerVars ==
    /\ url \in URLs
    /\ maxRetries \in 0..MaxRetries
    /\ attempt = 0
    /\ cpc = "entry"
    /\ result = "none"
    /\ log = <<>>

IdleCheckerVars ==
    /\ url = Malformed
    /\ maxRetries = DefaultMaxRetries
    /\ attempt = 0
    /\ cpc = "idle"
    /\ result = "none"
    /\ log = <<>>


(***************************************************************************)
(* validateResourcesInParallel(resources, concurrency)                     *)
(***************************************************************************)
MaxResources == 4    \* candidate lists of length 0..MaxResources
MaxConcurrency == 3  \* concurrency in 1..MaxConcurrency

Generic == [host |-> "example.com", path |-> <<"/", "watch">>]
Video   == [host |-> "www.youtube.com", path |-> <<"/", "watch">>]

\* candidate resources: {title, url, type}; the pool holds a malformed URL
\* and two resources that share a URL
Candidates ==
    { [title |-> "A", url |-> Generic,   type |-> "documentation"],
      [title |-> "B", url |-> Video,     type |-> "video"],
      [title |-> "C", url |-> Malformed, type |-> "other"] }

SeqsUpTo(S, n) == UNION {[1..k -> S] : k \in 0..n}

Min(a, b) == IF a < b THEN a ELSE b

\* what one call validateUrl(resource.url) gives its caller: it returns a
\* boolean and never throws; a string that is no URL fails every attempt
ValidateUrlOutcomes(u) ==
    IF Parses(u) THEN {"valid", "invalid"} ELSE {"invalid"}

\* the chunks built by the first loop, as index ranges into resources:
\* chunk k is resources.slice((k-1)*concurrency, k*concurrency)
NumChunks(rs, c) == (Len(rs) + c - 1) \div c
ChunkFirst(k, c) == (k - 1) * c + 1
\* seeded fault: the slice takes one element too many
ChunkLastOffByOne(rs, k, c) == Min(k * c + 1, Len(rs))

ChunkLast(rs, k, c) == Min(k * c, Len(rs))
ChunkIndices(rs, k, c) == ChunkFirst(k, c)..ChunkLast(rs, k, c)

\* { ...resource, isValid }
WithIsValid(r, v) ==
    [f \in DOMAIN r \cup {"isValid"} |-> IF f = "isValid" THEN v ELSE r[f]]

\* seeded fault: the isValid flag is not stripped
WithoutIsValidKeeps(r) == r

\* ({ isValid, ...rest }) => rest
WithoutIsValid(r) == [f \in DOMAIN r \ {"isValid"} |-> r[f]]

\* results.filter((r) => r.isValid), results being in chunk order
RECURSIVE FilterValid(_, _, _)
FilterValid(res, lo, hi) ==
    IF lo > hi THEN <<>>
    ELSE (IF res[lo].isValid THEN <<res[lo]>> ELSE <<>>)
         \o FilterValid(res, lo + 1, hi)

\* `await Promise.all(...)` resolves when every check of the chunk returned
BatchComplete == inflight = {}

\* seeded fault: a URL that was checked in an earlier chunk is not checked again
StartChunkCoalesces ==
    /\ vpc = "loop"
    /\ chunkIdx <= NumChunks(resources, concurrency)
    /\ LET idx == ChunkIndices(resources, chunkIdx, concurrency)
           seen == {calls[k] : k \in DOMAIN calls}
           urls == [j \in 1..Cardinality(idx) |->
                       resources[ChunkFirst(chunkIdx, concurrency) + j - 1].url]
       IN
        /\ inflight' = inflight \cup idx
        /\ calls' = calls \o SelectSeq(urls, LAMBDA u : u \notin seen)
    /\ vpc' = "await"
    /\ UNCHANGED <<resources, concurrency, chunkIdx, results,
                   validatedResources, returned, verdict>>
    /\ UNCHANGED <<appVars, checkerVars, enricherVars>>

\* for (const chunk of chunks): start every check of the chunk at once
StartChunk ==
    /\ vpc = "loop"
    /\ chunkIdx <= NumChunks(resources, concurrency)
    /\ LET idx == ChunkIndices(resources, chunkIdx, concurrency) IN
        /\ inflight' = inflight \cup idx
        /\ calls' = calls \o [j \in 1..Cardinality(idx) |->
                                 resources[ChunkFirst(chunkIdx, concurrency) + j - 1].url]
    /\ vpc' = "await"
    /\ UNCHANGED <<resources, concurrency, chunkIdx, results,
                   validatedResources, returned, verdict>>
    /\ UNCHANGED <<appVars, checkerVars, enricherVars>>

\* one validateUrl call of the chunk returns (or rejects)
CheckReturns(i) ==
    /\ i \in inflight
    /\ \E o \in ValidateUrlOutcomes(resources[i].url) :
        IF o = "throw"
        THEN /\ vpc' = "thrown"       \* Promise.all rejects, so does the caller
             /\ UNCHANGED <<results, verdict>>
        ELSE /\ results' = [j \in DOMAIN results \cup {i} |->
                              IF j = i THEN WithIsValid(resources[i], o = "valid")
                              ELSE results[j]]
             /\ verdict' = [j \in DOMAIN verdict \cup {i} |->
                              IF j = i THEN o = "valid" ELSE verdict[j]]
             /\ vpc' = vpc
    /\ inflight' = inflight \ {i}
    /\ UNCHANGED <<resources, concurrency, chunkIdx, validatedResources,
                   returned, calls>>
    /\ UNCHANGED <<appVars, checkerVars, enricherVars>>

\* Promise.all resolved: push the chunk's valid results, go to the next chunk
ChunkDone ==
    /\ vpc = "await"
    /\ BatchComplete
    /\ validatedResources' = validatedResources \o
          FilterValid(results, ChunkFirst(chunkIdx, concurrency),
                      ChunkLast(resources, chunkIdx, concurrency))
    /\ chunkIdx' = chunkIdx + 1
    /\ vpc' = "loop"
    /\ UNCHANGED <<resources, concurrency, inflight, results, returned,
                   calls, verdict>>
    /\ UNCHANGED <<appVars, checkerVars, enricherVars>>

\* return validatedResources.map(({ isValid, ...rest }) => rest)
ValidatorReturn ==
    /\ vpc = "loop"
    /\ chunkIdx > NumChunks(resources, concurrency)
    /\ returned' = [k \in 1..Len(validatedResources) |->
                        WithoutIsValid(validatedResources[k])]
    /\ vpc' = "done"
    /\ UNCHANGED <<resources, concurrency, chunkIdx, inflight, results,
                   validatedResources, calls, verdict>>
    /\ UNCHANGED <<appVars, checkerVars, enricherVars>>

InitValidatorVars ==
    /\ resources \in SeqsUpTo(Candidates, MaxResources)
    /\ concurrency \in 1..MaxConcurrency
    /\ vpc = "loop"
    /\ chunkIdx = 1
    /\ inflight = {}
    /\ results = <<>>
    /\ validatedResources = <<>>
    /\ returned = <<>>
    /\ calls = <<>>
    /\ verdict = <<>>

IdleValidatorVars ==
    /\ resources = <<>>
    /\ concurrency = 1
    /\ vpc = "idle"
    /\ chunkIdx = 1
    /\ inflight = {}
    /\ results = <<>>
    /\ validatedResources = <<>>
    /\ returned = <<>>
    /\ calls = <<>>
    /\ verdict = <<>>

(***************************************************************************)
(* The stored plan (models/Resource.js) and the curated fallback table     *)
(***************************************************************************)
MaxGenerated == 6    \* the generator returns 0..MaxGenerated candidates

FallbackThreshold == 3   \* validatedResources.length < 3
MaxPerStep == 5          \* slice(0, 5) and 5 - validatedResources.length
CatchFallbacks == 3      \* fallbacks.slice(0, 3)

\* resourceLinkSchema.type.enum
TypeEnum == {"documentation", "tutorial", "video", "course", "article",
             "github", "tool", "other"}

Site(h) == [host |-> h, path |-> <<"/", "docs">>]
Link(t, h, ty) == [title |-> t, url |-> Site(h), type |-> ty]

\* const curatedResources = { mobile: [...], frontend: [...], ... }
curatedResources ==
    [ mobile |->
        << Link("React Native Documentation", "reactnative.dev", "documentation"),
           Link("Flutter Documentation", "docs.flutter.dev", "documentation"),
           Link("Ionic Framework Docs", "ionicframework.com", "documentation"),
           Link("Android Developers", "developer.android.com", "documentation"),
           Link("Apple Developer", "developer.apple.com", "documentation") >>,
      frontend |->
        << Link("MDN Web Docs", "developer.mozilla.org", "documentation"),
           Link("React Documentation", "react.dev", "documentation"),
           Link("Vue.js Guide", "vuejs.org", "documentation"),
           Link("Angular Documentation", "angular.io", "documentation"),
           Link("freeCodeCamp", "www.freecodecamp.org", "course"),
           Link("CSS-Tricks", "css-tricks.com", "article") >> ]

\* keys every JavaScript object inherits: curatedResources["constructor"] is
\* a function, truthy and without a slice method
InheritedKeys == {"constructor"}

\* categories a plan is created with: two of the table, one unknown to it,
\* one that names an inherited key
Categories == {"mobile", "frontend", "music", "constructor"}

\* seeded fault: a category the table does not list gets the first list
FallbacksDefaultList(category) ==
    IF category \in DOMAIN curatedResources THEN curatedResources[category]
    ELSE curatedResources.mobile

\* curatedResources[resource.category] || []   (for an own key or no key)
Fallbacks(category) ==
    IF category \in DOMAIN curatedResources THEN curatedResources[category]
    ELSE <<>>

\* whether evaluating `fallbacks.slice(...)` throws a TypeError
FallbackLookupThrows(category) == category \in InheritedKeys

\* seeded fault: the slice ends one entry early
SliceOneShort(s, n) == IF n <= 1 THEN <<>> ELSE SubSeq(s, 1, Min(n - 1, Len(s)))

\* seeded fault: the slice keeps the whole list
SliceWhole(s, n) == s

\* Array.prototype.slice(0, n)
Slice(s, n) == IF n <= 0 THEN <<>> ELSE SubSeq(s, 1, Min(n, Len(s)))

\* seeded fault: nothing is filtered out
KeepAll(s, keep, i) == SubSeq(s, i, Len(s))

\* seeded fault: the kept elements come out in reverse order
RECURSIVE KeepBackwards(_, _, _)
KeepBackwards(s, keep, i) ==
    IF i > Len(s) THEN <<>>
    ELSE KeepBackwards(s, keep, i + 1) \o (IF i \in keep THEN <<s[i]>> ELSE <<>>)

\* the subsequence of s at the indices in keep
RECURSIVE Keep(_, _, _)
Keep(s, keep, i) ==
    IF i > Len(s) THEN <<>>
    ELSE (IF i \in keep THEN <<s[i]>> ELSE <<>>) \o Keep(s, keep, i + 1)

NoDoc == [exists |-> FALSE, resourcesStatus |-> "pending", category |-> "",
          learningPath |-> <<>>]

\* a step as generateLearningPath builds it
PendingStep == [resourcesStatus |-> "pending", resources |-> <<>>,
                completed |-> FALSE]

NewPlan(category, n) ==
    [exists |-> TRUE, resourcesStatus |-> "pending", category |-> category,
     learningPath |-> [i \in 1..n |-> PendingStep]]

\* how a call to MongoDB can end; net.storage says whether calls can fail
StorageOutcomes == IF net.storage = "sound" THEN {"ok"} ELSE {"ok", "error"}

\* mongoose validation on save: every link's type is of the enum
SchemaValid(d) ==
    \A i \in 1..Len(d.learningPath) :
        \A k \in 1..Len(d.learningPath[i].resources) :
            d.learningPath[i].resources[k].type \in TypeEnum

\* how `await resource.save()` can end for document d
SaveOutcomes(d) == IF SchemaValid(d) THEN StorageOutcomes ELSE {"error"}

\* how `await Resource.findById(id)` can end
FindOutcomes == StorageOutcomes

(***************************************************************************)
(* generateResourcesForStep: the candidates the generator can return.      *)
(* Candidate k of a list is G(k); Odd is a candidate whose type is not of  *)
(* the schema's enum (r.type || "other" keeps whatever the generator says).*)
(***************************************************************************)
GeneratedTitles == <<"g1", "g2", "g3", "g4", "g5", "g6", "g7", "g8", "g9">>
G(k) == [title |-> GeneratedTitles[k],
         url |-> [host |-> "example.com", path |-> <<"/", GeneratedTitles[k]>>],
         type |-> "tutorial"]
Odd  == [title |-> "odd",
         url |-> [host |-> "example.com", path |-> <<"/", "odd">>],
         type |-> "book"]

\* seeded fault: a failure hands on a candidate instead of []
GeneratorOutputsKeepOnFailure(limit) ==
    {[ok |-> FALSE, list |-> <<G(1)>>]} \cup
    {[ok |-> TRUE, list |-> [i \in 1..k |-> G(i)]] : k \in 0..limit}

\* a failure (exception, unparsable text) is caught and gives []
GeneratorOutputs(limit) ==
    {[ok |-> FALSE, list |-> <<>>]} \cup
    {[ok |-> TRUE, list |-> [i \in 1..k |-> G(i)]] : k \in 0..limit} \cup
    {[ok |-> TRUE, list |-> <<Odd>> \o [i \in 1..k |-> G(i)]] : k \in 0..(limit - 1)}

\* A link's check can end either way (ValidateUrlOutcomes) unless the
\* network state settles it: net.pinned are the URLs that answer the same
\* way all along, net.dead those of them that never answer.  net.storage
\* says whether calls to MongoDB can fail ("flaky") or all succeed
\* ("sound"), net.clients is the number of retry, extend and add_step
\* requests the clients send, net.script is what the generator answers
\* where it answers every call alike.
MaxRequests == 1     \* retry, extend and add_step requests per behaviour

FreeNet == [pinned |-> {}, dead |-> {}, storage |-> "flaky",
            clients |-> MaxRequests, script |-> [ok |-> FALSE, list |-> <<>>]]

CanSurvive(u) == "valid" \in ValidateUrlOutcomes(u) /\ u \notin net.dead
MustSurvive(u) == CanSurvive(u) /\ u \in net.pinned

\* the verdicts validateResourcesInParallel can reach on a list: which
\* indices survive (see SpecValidator)
Verdicts(list) ==
    {v \in SUBSET {i \in 1..Len(list) : CanSurvive(list[i].url)} :
        \A i \in 1..Len(list) : MustSurvive(list[i].url) => i \in v}

(***************************************************************************)
(* gatherAndValidateResources(resourceId).  The function is started        *)
(* without await by the routes that create, retry and extend a plan, so    *)
(* several runs over one plan can be in flight: each local of the function *)
(* is indexed by the run.  save() stores the paths the run assigned.       *)
(***************************************************************************)
Runs == {1, 2}

Set(f, r, v) == [f EXCEPT ![r] = v]
SetStep(d, i, st) == [d EXCEPT !.learningPath[i] = st]

(***************************************************************************)
(* What `await resource.save()` stores for a document that was loaded with *)
(* findById: the paths assigned since the load, each with the value the    *)
(* document holds in memory; the paths that were not assigned keep the     *)
(* value storage has.                                                      *)
(***************************************************************************)
\* resource.resourcesStatus was assigned
SavePlanStatus(stored, mem) ==
    [stored EXCEPT !.resourcesStatus = mem.resourcesStatus]

\* step.resourcesStatus was assigned on the step at index i
SaveStepStatus(stored, mem, i) ==
    IF i \in DOMAIN stored.learningPath
    THEN [stored EXCEPT !.learningPath[i].resourcesStatus
                            = mem.learningPath[i].resourcesStatus]
    ELSE stored

\* seeded fault: the save stores the whole document held in memory
SaveStepWholeDocument(stored, mem, i) == mem

\* step.resources and step.resourcesStatus were assigned on the step at index i
SaveStep(stored, mem, i) ==
    IF i \in DOMAIN stored.learningPath
    THEN [stored EXCEPT !.learningPath[i].resourcesStatus
                            = mem.learningPath[i].resourcesStatus,
                        !.learningPath[i].resources
                            = mem.learningPath[i].resources]
    ELSE stored

\* seeded fault: a step that was attempted is always reported ready
StepStatusAlwaysReady(vs) == "ready"

\* seeded fault: the two branches of the conditional swapped
StepStatusSwapped(vs) == IF Len(vs) > 0 THEN "failed" ELSE "ready"

\* validatedResources.length > 0 ? "ready" : "failed"
StepStatus(vs) == IF Len(vs) > 0 THEN "ready" ELSE "failed"

NoCheck == [genOk |-> TRUE, candidates |-> <<>>, survivors |-> {},
            fallbackUsed |-> FALSE, additional |-> <<>>, fallbackSurvivors |-> {}]

\* history: a find or save of run r ended with o
Noted(r, o) == faulty' = IF o = "ok" THEN faulty ELSE Set(faulty, r, TRUE)

\* seeded fault: the loop passes over the steps that are already ready
NextStepSkipsReady(r) ==
    LET n == Len(doc'[r].learningPath)
        later == {j \in (stepIdx[r] + 1)..n :
                     doc'[r].learningPath[j].resourcesStatus # "ready"}
        nxt == IF later = {} THEN n + 1
               ELSE CHOOSE j \in later : \A q \in later : j <= q
    IN  /\ stepIdx' = Set(stepIdx, r, nxt)
        /\ gpc' = Set(gpc, r, IF nxt <= n THEN "step_begin" ELSE "finish")
        /\ generated' = Set(generated, r, <<>>)
        /\ validated' = Set(validated, r, <<>>)

\* seeded fault: the loop advances by two
NextStepByTwo(r) ==
    /\ stepIdx' = Set(stepIdx, r, stepIdx[r] + 2)
    /\ gpc' = Set(gpc, r, IF stepIdx[r] + 2 <= Len(doc'[r].learningPath)
                          THEN "step_begin" ELSE "finish")
    /\ generated' = Set(generated, r, <<>>)
    /\ validated' = Set(validated, r, <<>>)

\* the for loop's increment and test
NextStep(r) ==
    /\ stepIdx' = Set(stepIdx, r, stepIdx[r] + 1)
    /\ gpc' = Set(gpc, r, IF stepIdx[r] + 1 <= Len(doc'[r].learningPath)
                          THEN "step_begin" ELSE "finish")
    /\ generated' = Set(generated, r, <<>>)
    /\ validated' = Set(validated, r, <<>>)

\* seeded fault: the run does not test what the load returned
RunFindNoTest(r) ==
    /\ gpc[r] = "find"
    /\ \E o \in FindOutcomes :
        /\ Noted(r, o)
        /\ IF o = "error" THEN gpc' = Set(gpc, r, "catch_find") /\ doc' = doc
           ELSE gpc' = Set(gpc, r, "plan_loading") /\ doc' = Set(doc, r, db)
    /\ UNCHANGED <<db, stepIdx, generated, validated, checked, outcome>>
    /\ UNCHANGED <<appVars, checkerVars, validatorVars, routeVars, net>>

\* const resource = await Resource.findById(resourceId); if (!resource) return
RunFind(r) ==
    /\ gpc[r] = "find"
    /\ \E o \in FindOutcomes :
        /\ Noted(r, o)
        /\ IF o = "error" THEN gpc' = Set(gpc, r, "catch_find") /\ doc' = doc
           ELSE IF ~db.exists THEN gpc' = Set(gpc, r, "done") /\ doc' = doc
           ELSE gpc' = Set(gpc, r, "plan_loading") /\ doc' = Set(doc, r, db)
    /\ UNCHANGED <<db, stepIdx, generated, validated, checked, outcome>>
    /\ UNCHANGED <<appVars, checkerVars, validatorVars, routeVars, net>>

\* seeded fault: a rejected save is ignored and the run goes on
RunPlanLoadingGoesOn(r) ==
    /\ gpc[r] = "plan_loading"
    /\ doc' = Set(doc, r, [doc[r] EXCEPT !.resourcesStatus = "loading"])
    /\ \E o \in SaveOutcomes(doc'[r]) :
        /\ Noted(r, o)
        /\ db' = IF o = "ok" THEN SavePlanStatus(db, doc'[r]) ELSE db
        /\ stepIdx' = Set(stepIdx, r, 1)
        /\ gpc' = Set(gpc, r, IF 1 <= Len(doc[r].learningPath)
                              THEN "step_begin" ELSE "finish")
    /\ UNCHANGED <<generated, validated, checked, outcome>>
    /\ UNCHANGED <<appVars, checkerVars, validatorVars, routeVars, net>>

\* resource.resourcesStatus = "loading"; await resource.save()
RunPlanLoading(r) ==
    /\ gpc[r] = "plan_loading"
    /\ doc' = Set(doc, r, [doc[r] EXCEPT !.resourcesStatus = "loading"])
    /\ \E o \in SaveOutcomes(doc'[r]) :
        /\ Noted(r, o)
        /\ IF o = "ok"
           THEN /\ db' = SavePlanStatus(db, doc'[r])
                /\ stepIdx' = Set(stepIdx, r, 1)
                /\ gpc' = Set(gpc, r, IF 1 <= Len(doc[r].learningPath)
                                      THEN "step_begin" ELSE "finish")
           ELSE gpc' = Set(gpc, r, "catch_find") /\ UNCHANGED <<db, stepIdx>>
    /\ UNCHANGED <<generated, validated, checked, outcome>>
    /\ UNCHANGED <<appVars, checkerVars, validatorVars, routeVars, net>>

\* seeded fault: the step is marked in memory only
StepBeginNoSave(r) ==
    /\ gpc[r] = "step_begin"
    /\ doc' = Set(doc, r, SetStep(doc[r], stepIdx[r],
                 [doc[r].learningPath[stepIdx[r]] EXCEPT !.resourcesStatus = "loading"]))
    /\ checked' = Set(checked, r, Append(checked[r], NoCheck))
    /\ gpc' = Set(gpc, r, "generate")
    /\ UNCHANGED <<db, stepIdx, generated, validated, outcome, faulty>>
    /\ UNCHANGED <<appVars, checkerVars, validatorVars, routeVars, net>>

\* step.resourcesStatus = "loading"; await resource.save()
StepBegin(r) ==
    /\ gpc[r] = "step_begin"
    /\ doc' = Set(doc, r, SetStep(doc[r], stepIdx[r],
                 [doc[r].learningPath[stepIdx[r]] EXCEPT !.resourcesStatus = "loading"]))
    /\ checked' = Set(checked, r, Append(checked[r], NoCheck))
    /\ \E o \in SaveOutcomes(doc'[r]) :
        /\ Noted(r, o)
        /\ IF o = "ok" THEN /\ db' = SaveStepStatus(db, doc'[r], stepIdx[r])
                            /\ gpc' = Set(gpc, r, "generate")
           ELSE db' = db /\ gpc' = Set(gpc, r, "step_catch")
    /\ UNCHANGED <<stepIdx, generated, validated, outcome>>
    /\ UNCHANGED <<appVars, checkerVars, validatorVars, routeVars, net>>

\* generatedResources = await generateResourcesForStep(...)
GenerateStep(r, outputs) ==
    /\ gpc[r] = "generate"
    /\ \E g \in outputs :
        /\ generated' = Set(generated, r, g.list)
        /\ checked' = [checked EXCEPT ![r][stepIdx[r]].genOk = g.ok,
                                      ![r][stepIdx[r]].candidates = g.list]
    /\ gpc' = Set(gpc, r, "validate")
    /\ UNCHANGED <<db, doc, stepIdx, validated, outcome, faulty>>
    /\ UNCHANGED <<appVars, checkerVars, validatorVars, routeVars, net>>

\* validatedResources = await validateResourcesInParallel(generatedResources, 5)
ValidateStep(r) ==
    /\ gpc[r] = "validate"
    /\ \E v \in Verdicts(generated[r]) :
        /\ validated' = Set(validated, r, Keep(generated[r], v, 1))
        /\ checked' = [checked EXCEPT ![r][stepIdx[r]].survivors = v]
        /\ gpc' = Set(gpc, r, IF Len(validated'[r]) < FallbackThreshold
                              THEN "fallback" ELSE "step_save")
    /\ UNCHANGED <<db, doc, stepIdx, generated, outcome, faulty>>
    /\ UNCHANGED <<appVars, checkerVars, validatorVars, routeVars, net>>

\* the body of `if (validatedResources.length < 3) { ... }`
FallbackStep(r) ==
    /\ gpc[r] = "fallback"
    /\ IF FallbackLookupThrows(doc[r].category)
       THEN /\ gpc' = Set(gpc, r, "step_catch")
            /\ checked' = [checked EXCEPT ![r][stepIdx[r]].fallbackUsed = TRUE]
            /\ validated' = validated
       ELSE LET additional == Slice(Fallbacks(doc[r].category),
                                    MaxPerStep - Len(validated[r])) IN
            \E v \in Verdicts(additional) :
                /\ validated' = Set(validated, r,
                                    validated[r] \o Keep(additional, v, 1))
                /\ checked' = [checked EXCEPT
                                  ![r][stepIdx[r]].fallbackUsed = TRUE,
                                  ![r][stepIdx[r]].additional = additional,
                                  ![r][stepIdx[r]].fallbackSurvivors = v]
                /\ gpc' = Set(gpc, r, "step_save")
    /\ UNCHANGED <<db, doc, stepIdx, generated, outcome, faulty>>
    /\ UNCHANGED <<appVars, checkerVars, validatorVars, routeVars, net>>

\* step.resources = validatedResources.slice(0, 5); step.resourcesStatus = ...;
\* await resource.save()
StepSave(r) ==
    /\ gpc[r] = "step_save"
    /\ doc' = Set(doc, r, SetStep(doc[r], stepIdx[r],
                 [doc[r].learningPath[stepIdx[r]] EXCEPT
                     !.resources = Slice(validated[r], MaxPerStep),
                     !.resourcesStatus = StepStatus(validated[r])]))
    /\ \E o \in SaveOutcomes(doc'[r]) :
        /\ Noted(r, o)
        /\ IF o = "ok"
           THEN /\ db' = SaveStep(db, doc'[r], stepIdx[r])
                /\ outcome' = Set(outcome, r, Append(outcome[r], "normal"))
                /\ NextStep(r)
           ELSE /\ gpc' = Set(gpc, r, "step_catch")
                /\ UNCHANGED <<db, stepIdx, generated, validated, outcome>>
    /\ UNCHANGED <<checked>>
    /\ UNCHANGED <<appVars, checkerVars, validatorVars, routeVars, net>>

\* catch (stepError): status failed, fallbacks.slice(0, 3), save
StepCatch(r) ==
    /\ gpc[r] = "step_catch"
    /\ IF FallbackLookupThrows(doc[r].category)
       THEN /\ doc' = Set(doc, r, SetStep(doc[r], stepIdx[r],
                        [doc[r].learningPath[stepIdx[r]] EXCEPT
                            !.resourcesStatus = "failed"]))
            /\ outcome' = Set(outcome, r, Append(outcome[r], "escaped"))
            /\ gpc' = Set(gpc, r, "catch_find")
            /\ UNCHANGED <<db, stepIdx, generated, validated, faulty>>
       ELSE /\ doc' = Set(doc, r, SetStep(doc[r], stepIdx[r],
                        [doc[r].learningPath[stepIdx[r]] EXCEPT
                            !.resourcesStatus = "failed",
                            !.resources = Slice(Fallbacks(doc[r].category),
                                                CatchFallbacks)]))
            /\ \E o \in SaveOutcomes(doc'[r]) :
                /\ Noted(r, o)
                /\ IF o = "ok"
                   THEN /\ db' = SaveStep(db, doc'[r], stepIdx[r])
                        /\ outcome' = Set(outcome, r, Append(outcome[r], "exception"))
                        /\ NextStep(r)
                   ELSE /\ outcome' = Set(outcome, r, Append(outcome[r], "escaped"))
                        /\ gpc' = Set(gpc, r, "catch_find")
                        /\ UNCHANGED <<db, stepIdx, generated, validated>>
    /\ UNCHANGED <<checked>>
    /\ UNCHANGED <<appVars, checkerVars, validatorVars, routeVars, net>>

\* seeded fault: a plan with a failed step is reported failed
PlanStatusFailedIfAny(steps) ==
    IF \A i \in DOMAIN steps : steps[i].resourcesStatus = "ready" THEN "ready"
    ELSE IF \E i \in DOMAIN steps : steps[i].resourcesStatus = "failed" THEN "failed"
    ELSE "ready"

\* allReady ? "ready" : anyFailed ? "ready" : "ready"
PlanStatus(steps) ==
    LET allReady == \A i \in DOMAIN steps : steps[i].resourcesStatus = "ready"
        anyFailed == \E i \in DOMAIN steps : steps[i].resourcesStatus = "failed"
    IN  IF allReady THEN "ready" ELSE IF anyFailed THEN "ready" ELSE "ready"

\* resource.resourcesStatus = ...; await resource.save()
RunFinish(r) ==
    /\ gpc[r] = "finish"
    /\ doc' = Set(doc, r, [doc[r] EXCEPT
                              !.resourcesStatus = PlanStatus(doc[r].learningPath)])
    /\ \E o \in SaveOutcomes(doc'[r]) :
        /\ Noted(r, o)
        /\ IF o = "ok" THEN /\ db' = SavePlanStatus(db, doc'[r])
                            /\ gpc' = Set(gpc, r, "done")
           ELSE db' = db /\ gpc' = Set(gpc, r, "catch_find")
    /\ UNCHANGED <<stepIdx, generated, validated, checked, outcome>>
    /\ UNCHANGED <<appVars, checkerVars, validatorVars, routeVars, net>>

\* seeded fault: a failed reload in the outer catch is not told from success
CatchFindGivesUp(r) ==
    /\ gpc[r] = "catch_find"
    /\ \E o \in FindOutcomes :
        /\ Noted(r, o)
        /\ gpc' = Set(gpc, r, "done") /\ doc' = doc
    /\ UNCHANGED <<db, stepIdx, generated, validated, checked, outcome>>
    /\ UNCHANGED <<appVars, checkerVars, validatorVars, routeVars, net>>

\* outer catch: const resource = await Resource.findById(resourceId)
CatchFind(r) ==
    /\ gpc[r] = "catch_find"
    /\ \E o \in FindOutcomes :
        /\ Noted(r, o)
        /\ IF o = "error" \/ ~db.exists
           THEN gpc' = Set(gpc, r, "done") /\ doc' = doc
           ELSE gpc' = Set(gpc, r, "catch_save") /\ doc' = Set(doc, r, db)
    /\ UNCHANGED <<db, stepIdx, generated, validated, checked, outcome>>
    /\ UNCHANGED <<appVars, checkerVars, validatorVars, routeVars, net>>

\* seeded fault: an error of the last save is thrown on to the caller
CatchSaveRejects(r) ==
    /\ gpc[r] = "catch_save"
    /\ doc' = Set(doc, r, [doc[r] EXCEPT !.resourcesStatus = "failed"])
    /\ \E o \in SaveOutcomes(doc'[r]) :
        /\ Noted(r, o)
        /\ db' = IF o = "ok" THEN SavePlanStatus(db, doc'[r]) ELSE db
        /\ gpc' = Set(gpc, r, IF o = "ok" THEN "done" ELSE "rejected")
    /\ UNCHANGED <<stepIdx, generated, validated, checked, outcome>>
    /\ UNCHANGED <<appVars, checkerVars, validatorVars, routeVars, net>>

\* outer catch: resource.resourcesStatus = "failed"; await resource.save()
CatchSave(r) ==
    /\ gpc[r] = "catch_save"
    /\ doc' = Set(doc, r, [doc[r] EXCEPT !.resourcesStatus = "failed"])
    /\ \E o \in SaveOutcomes(doc'[r]) :
        /\ Noted(r, o)
        /\ db' = IF o = "ok" THEN SavePlanStatus(db, doc'[r]) ELSE db
    /\ gpc' = Set(gpc, r, "done")
    /\ UNCHANGED <<stepIdx, generated, validated, checked, outcome>>
    /\ UNCHANGED <<appVars, checkerVars, validatorVars, routeVars, net>>

\* no run in flight, no request in flight
IdleRunVars ==
    /\ doc = [r \in Runs |-> NoDoc]
    /\ stepIdx = [r \in Runs |-> 0]
    /\ generated = [r \in Runs |-> <<>>]
    /\ validated = [r \in Runs |-> <<>>]
    /\ checked = [r \in Runs |-> <<>>]
    /\ outcome = [r \in Runs |-> <<>>]
    /\ faulty = [r \in Runs |-> FALSE]
    /\ hpc = "idle"
    /\ hdoc = NoDoc
    /\ requests = 0
    /\ answered = "none"
    /\ origin = [r \in Runs |-> "none"]

IdleEnricherVars ==
    /\ db = NoDoc
    /\ gpc = [r \in Runs |-> "idle"]
    /\ IdleRunVars
    /\ net = FreeNet

\* run 1 starts on a stored plan of n pending steps (or on a missing plan)
InitEnricherVars(n) ==
    /\ db \in {NewPlan(c, n) : c \in Categories} \cup {NoDoc}
    /\ gpc = [r \in Runs |-> IF r = 1 THEN "find" ELSE "idle"]
    /\ IdleRunVars
    /\ net = FreeNet


(***************************************************************************)
(* Specifications of the two lower layers                                  *)
(***************************************************************************)
InitChecker == InitCheckerVars /\ IdleValidatorVars /\ IdleEnricherVars /\ IdleAppVars

NextChecker ==
    \/ ValidateUrlEnter
    \/ YouTubeAttempt
    \/ YouTubeBackoff
    \/ GenericHead
    \/ GenericGet
    \/ GenericCatch

SpecChecker == InitChecker /\ [][NextChecker]_vars

InitValidator == IdleCheckerVars /\ InitValidatorVars /\ IdleEnricherVars /\ IdleAppVars

NextValidator ==
    \/ StartChunk
    \/ \E i \in 1..Len(resources) : CheckReturns(i)
    \/ ChunkDone
    \/ ValidatorReturn

SpecValidator == InitValidator /\ [][NextValidator]_vars

(***************************************************************************)
(* One run of gatherAndValidateResources over a plan of one step           *)
(***************************************************************************)
InitStep == IdleCheckerVars /\ IdleValidatorVars /\ IdleAppVars /\ InitEnricherVars(1)

NextStepRun ==
    \/ RunFind(1)
    \/ RunPlanLoading(1)
    \/ StepBegin(1)
    \/ GenerateStep(1, GeneratorOutputs(MaxGenerated))
    \/ ValidateStep(1)
    \/ FallbackStep(1)
    \/ StepSave(1)
    \/ StepCatch(1)
    \/ RunFinish(1)
    \/ CatchFind(1)
    \/ CatchSave(1)

SpecStep == InitStep /\ [][NextStepRun]_vars

(***************************************************************************)
(* One run of gatherAndValidateResources over a plan of two steps.  The    *)
(* generator is asked for "5-7" resources: it returns RequestedMin of      *)
(* them, or one of a type the schema rejects, or fails.  The curated links *)
(* answer the same way during the whole run.                               *)
(***************************************************************************)
RequestedMin == 5    \* "Find 5-7 REAL learning resources"

RunOutputs ==
    {g \in GeneratorOutputs(RequestedMin) :
        \/ ~g.ok
        \/ g.list = <<Odd>>
        \/ (Len(g.list) = RequestedMin /\ g.list[1] # Odd)}

CuratedUrls ==
    UNION {{curatedResources[c][k].url : k \in DOMAIN curatedResources[c]} :
              c \in DOMAIN curatedResources}

\* every curated link answers, except those of `dead`
CuratedPinned(dead) == [FreeNet EXCEPT !.pinned = CuratedUrls, !.dead = dead]

RunNets ==
    {CuratedPinned(D) :
        D \in {{},
                {Site("ionicframework.com")},
                {Site("developer.mozilla.org")},
                {Site("developer.mozilla.org"), Site("react.dev")}}}

InitRun ==
    /\ IdleCheckerVars /\ IdleValidatorVars /\ IdleAppVars
    /\ db \in {NewPlan(c, 2) : c \in Categories}
    /\ gpc = [r \in Runs |-> IF r = 1 THEN "find" ELSE "idle"]
    /\ IdleRunVars
    /\ net \in RunNets

NextRun ==
    \/ RunFind(1)
    \/ RunPlanLoading(1)
    \/ StepBegin(1)
    \/ GenerateStep(1, RunOutputs)
    \/ ValidateStep(1)
    \/ FallbackStep(1)
    \/ StepSave(1)
    \/ StepCatch(1)
    \/ RunFinish(1)
    \/ CatchFind(1)
    \/ CatchSave(1)

SpecRun == InitRun /\ [][NextRun]_vars


(***************************************************************************)
(* The routes that write a stored plan: create (routes/resources           *)
(* POST /), retry (POST /:id/retry-resources), extend (POST /:id/extend    *)
(* and the assistant's extend_roadmap) and the assistant's add_step.  A    *)
(* handler loads the document, changes it in memory and saves it; runs and *)
(* other requests interleave between its load and its save.  A request     *)
(* that answers an error before saving leaves every variable as it was and *)
(* is not a step of the model.                                             *)
(***************************************************************************)
MaxSteps == 2        \* a plan has at most MaxSteps steps
runVars == <<doc, gpc, stepIdx, generated, validated, checked, outcome, faulty>>

\* the runs that are not in flight
FreeRuns == {r \in Runs : gpc[r] \in {"idle", "done"}}

\* the index a new run gets: one that was never used if there is one, so
\* that the locals of a run that has returned stay readable
FirstFreeRun ==
    LET fresh == {r \in FreeRuns : gpc[r] = "idle"}
        pool == IF fresh # {} THEN fresh ELSE FreeRuns
    IN  CHOOSE r \in pool : \A q \in pool : r <= q

\* gatherAndValidateResources(resource._id).catch(...): the call is not
\* awaited; the run goes as far as its first await
StartRun(r) ==
    /\ gpc' = Set(gpc, r, "find")
    /\ doc' = Set(doc, r, NoDoc)
    /\ stepIdx' = Set(stepIdx, r, 0)
    /\ generated' = Set(generated, r, <<>>)
    /\ validated' = Set(validated, r, <<>>)
    /\ checked' = Set(checked, r, <<>>)
    /\ outcome' = Set(outcome, r, <<>>)
    /\ faulty' = Set(faulty, r, FALSE)
    /\ origin' = Set(origin, r, IF hpc = "idle" THEN "create" ELSE hpc)

\* router.post("/") as far as its await of UserProgress.findOne: the steps
\* of generateLearningPath are stored pending and the run is started; a
\* save that rejects is answered 400
CreatePlan ==
    /\ ~db.exists /\ hpc = "idle"
    /\ \E c \in Categories, n \in 1..MaxSteps :
        \E o \in SaveOutcomes(NewPlan(c, n)) :
            IF o = "ok"
            THEN /\ db' = NewPlan(c, n)
                 /\ StartRun(FirstFreeRun)
                 /\ hpc' = "create"
                 /\ hdoc' = NewPlan(c, n)
                 /\ answered' = "none"
            ELSE /\ answered' = "400"
                 /\ UNCHANGED <<db, runVars, origin, hpc, hdoc>>
    /\ UNCHANGED <<requests, net, appVars, checkerVars, validatorVars>>

\* seeded fault: the run is awaited, and its failure is answered
CreateAnswerAwaitsRun ==
    /\ hpc = "create"
    /\ \A r \in Runs : gpc[r] \in {"idle", "done"}
    /\ answered' = IF db.resourcesStatus = "failed" THEN "400" ELSE "201"
    /\ hpc' = "idle"
    /\ hdoc' = NoDoc
    /\ UNCHANGED <<db, runVars, origin, requests, net, appVars, checkerVars, validatorVars>>

\* router.post("/") from there: the activity is tracked, errors of that
\* swallowed, and res.status(201).json(newResource) answers the request
\* with the handler's document
CreateAnswer ==
    /\ hpc = "create"
    /\ answered' = "201"
    /\ hpc' = "idle"
    /\ hdoc' = NoDoc
    /\ UNCHANGED <<db, runVars, origin, requests, net, appVars, checkerVars, validatorVars>>

\* const resource = await Resource.findById(req.params.id)
HandlerFind(label) ==
    /\ hpc = "idle" /\ db.exists
    /\ requests < net.clients
    /\ requests' = requests + 1
    /\ hpc' = label
    /\ hdoc' = db
    /\ UNCHANGED <<db, runVars, answered, origin, net, appVars, checkerVars, validatorVars>>

\* seeded fault: the handler waits until no run is in flight
HandlerSaveAndRunWhenQuiet(d, w) ==
    /\ FreeRuns = Runs
    /\ \E o \in SaveOutcomes(d) :
        IF o = "ok" THEN db' = w /\ StartRun(FirstFreeRun)
        ELSE UNCHANGED <<db, runVars, origin>>
    /\ hpc' = "idle"
    /\ hdoc' = NoDoc
    /\ UNCHANGED <<requests, answered, net, appVars, checkerVars, validatorVars>>

\* await resource.save() of a handler that then starts a run: d is the
\* handler's document, w what storage holds once the save has succeeded
HandlerSaveAndRun(d, w) ==
    /\ FreeRuns # {}
    /\ \E o \in SaveOutcomes(d) :
        IF o = "ok" THEN db' = w /\ StartRun(FirstFreeRun)
        ELSE UNCHANGED <<db, runVars, origin>>
    /\ hpc' = "idle"
    /\ hdoc' = NoDoc
    /\ UNCHANGED <<requests, answered, net, appVars, checkerVars, validatorVars>>

\* seeded fault: the resources are emptied, the steps' statuses are kept
ResetKeepsStatus(d) ==
    [d EXCEPT !.resourcesStatus = "pending",
              !.learningPath = [i \in DOMAIN d.learningPath |->
                                   [d.learningPath[i] EXCEPT !.resources = <<>>]]]

\* seeded fault: the reset also flips the first step's `completed`
ResetTogglesCompleted(d) ==
    [d EXCEPT !.resourcesStatus = "pending",
              !.learningPath = [i \in DOMAIN d.learningPath |->
                                   [d.learningPath[i] EXCEPT
                                       !.resourcesStatus = "pending",
                                       !.resources = <<>>,
                                       !.completed = IF i = 1 THEN ~@ ELSE @]]]

\* seeded fault: only the plan's status is reset
ResetPlanOnly(d) == [d EXCEPT !.resourcesStatus = "pending"]

\* resource.resourcesStatus = "pending"; every step pending with resources []
Reset(d) ==
    [d EXCEPT !.resourcesStatus = "pending",
              !.learningPath = [i \in DOMAIN d.learningPath |->
                                   [d.learningPath[i] EXCEPT
                                       !.resourcesStatus = "pending",
                                       !.resources = <<>>]]]

\* seeded fault: the new steps are put in front of the existing ones
ExtendedInFront(d, k, status) ==
    [d EXCEPT !.learningPath = [i \in 1..k |-> PendingStep] \o d.learningPath,
              !.resourcesStatus = status]

\* resource.learningPath.push(...formattedSteps); resource.resourcesStatus = status
Extended(d, k, status) ==
    [d EXCEPT !.learningPath = d.learningPath \o [i \in 1..k |-> PendingStep],
              !.resourcesStatus = status]

\* how many steps a request can add to document d
Room(d) == MaxSteps - Len(d.learningPath)

RetryFind == HandlerFind("retry")

\* what the retry handler's save stores: the plan's status and, for every
\* step it loaded, the status and the resources; `completed` is not
\* assigned, it is sent only if it differs in memory from what was loaded
SaveReset(stored, base, mem) ==
    [stored EXCEPT
        !.resourcesStatus = mem.resourcesStatus,
        !.learningPath = [i \in DOMAIN stored.learningPath |->
            IF i \in DOMAIN mem.learningPath
            THEN [stored.learningPath[i] EXCEPT
                     !.resourcesStatus = mem.learningPath[i].resourcesStatus,
                     !.resources = mem.learningPath[i].resources,
                     !.completed = IF mem.learningPath[i].completed
                                        = base.learningPath[i].completed
                                   THEN @ ELSE mem.learningPath[i].completed]
            ELSE stored.learningPath[i]]]

RetrySave ==
    /\ hpc = "retry"
    /\ HandlerSaveAndRun(Reset(hdoc), SaveReset(db, hdoc, Reset(hdoc)))

ExtendFind == HandlerFind("extend")

ExtendSave ==
    /\ hpc = "extend"
    /\ \E k \in 0..Room(hdoc) :
          HandlerSaveAndRun(Extended(hdoc, k, "pending"), Extended(db, k, "pending"))

AiExtendFind == HandlerFind("extend_roadmap")

AiExtendSave ==
    /\ hpc = "extend_roadmap"
    /\ \E k \in 0..Room(hdoc) :
          HandlerSaveAndRun(Extended(hdoc, k, "loading"), Extended(db, k, "loading"))

AddStepFind ==
    /\ Room(db) >= 1
    /\ HandlerFind("add_step")

\* resource.learningPath.push({...}); await resource.save(): the step is
\* appended to the stored list; no run is started
AddStepSave ==
    /\ hpc = "add_step"
    /\ \E o \in SaveOutcomes(Extended(hdoc, 1, hdoc.resourcesStatus)) :
        db' = IF o = "ok" THEN Extended(db, 1, db.resourcesStatus) ELSE db
    /\ hpc' = "idle"
    /\ hdoc' = NoDoc
    /\ UNCHANGED <<requests, answered, origin, runVars, net, appVars, checkerVars, validatorVars>>

\* where runs and requests interleave the generator finds no candidate, so
\* that a step's resources all come from the curated table
PlanOutputs == {g \in GeneratorOutputs(0) : g.ok}

\* the curated links all answer, or none does, during the whole behaviour
PlanNets == {CuratedPinned({}), CuratedPinned(CuratedUrls)}

InitPlan ==
    /\ IdleCheckerVars /\ IdleValidatorVars /\ IdleAppVars
    /\ db = NoDoc
    /\ gpc = [r \in Runs |-> "idle"]
    /\ IdleRunVars
    /\ net \in PlanNets

NextPlan ==
    \/ CreatePlan
    \/ CreateAnswer
    \/ RetryFind
    \/ RetrySave
    \/ ExtendFind
    \/ ExtendSave
    \/ AiExtendFind
    \/ AiExtendSave
    \/ AddStepFind
    \/ AddStepSave
    \/ \E r \in Runs : RunFind(r)
    \/ \E r \in Runs : RunPlanLoading(r)
    \/ \E r \in Runs : StepBegin(r)
    \/ \E r \in Runs : GenerateStep(r, PlanOutputs)
    \/ \E r \in Runs : ValidateStep(r)
    \/ \E r \in Runs : FallbackStep(r)
    \/ \E r \in Runs : StepSave(r)
    \/ \E r \in Runs : StepCatch(r)
    \/ \E r \in Runs : RunFinish(r)
    \/ \E r \in Runs : CatchFind(r)
    \/ \E r \in Runs : CatchSave(r)

SpecPlan == InitPlan /\ [][NextPlan]_vars


(***************************************************************************)
(* Requests issued one after the other: a plan is created, and each retry  *)
(* or extension is sent once no run is in flight.  The generator answers   *)
(* every call with net.script, every link answers the same way all along,  *)
(* and every storage call succeeds.                                        *)
(***************************************************************************)
RetryRequests == 2   \* requests per behaviour

GeneratedUrls == {G(k).url : k \in 1..RequestedMin} \cup {Odd.url}

\* the generator's answer: a failure, or RequestedMin candidates
RetryScripts ==
    {g \in GeneratorOutputs(RequestedMin) : ~g.ok \/ Len(g.list) = RequestedMin}

RetryNets ==
    {[pinned |-> CuratedUrls \cup GeneratedUrls, dead |-> D, storage |-> "sound",
      clients |-> RetryRequests, script |-> g] :
        D \in {{}, {G(4).url, G(5).url}, GeneratedUrls,
                GeneratedUrls \cup {Site("developer.mozilla.org")},
                GeneratedUrls \cup CuratedUrls},
        g \in RetryScripts}

InitRetry ==
    /\ IdleCheckerVars /\ IdleValidatorVars /\ IdleAppVars
    /\ db = NoDoc
    /\ gpc = [r \in Runs |-> "idle"]
    /\ IdleRunVars
    /\ net \in RetryNets

\* the client sends a retry once the run before has returned
RetryFindAfterRun ==
    /\ FreeRuns = Runs
    /\ RetryFind

\* the client sends an extension once the run before has returned
ExtendFindAfterRun ==
    /\ FreeRuns = Runs
    /\ ExtendFind

\* the assistant adds a step once the run before has returned
AddStepFindAfterRun ==
    /\ FreeRuns = Runs
    /\ AddStepFind

NextRetry ==
    \/ CreatePlan
    \/ CreateAnswer
    \/ RetryFindAfterRun
    \/ RetrySave
    \/ ExtendFindAfterRun
    \/ ExtendSave
    \/ AddStepFindAfterRun
    \/ AddStepSave
    \/ \E r \in Runs : RunFind(r)
    \/ \E r \in Runs : RunPlanLoading(r)
    \/ \E r \in Runs : StepBegin(r)
    \/ \E r \in Runs : GenerateStep(r, {net.script})
    \/ \E r \in Runs : ValidateStep(r)
    \/ \E r \in Runs : FallbackStep(r)
    \/ \E r \in Runs : StepSave(r)
    \/ \E r \in Runs : StepCatch(r)
    \/ \E r \in Runs : RunFinish(r)
    \/ \E r \in Runs : CatchFind(r)
    \/ \E r \in Runs : CatchSave(r)

SpecRetry == InitRetry /\ [][NextRetry]_vars

(***************************************************************************)
(* router.patch("/:id/steps/:stepId"): the user's update of a step, sent   *)
(* while a run is at work on the plan.  The step schema has no path        *)
(* `notes`, so the assignment of req.body.notes stores nothing; what the   *)
(* request can change is `completed`.                                      *)
(***************************************************************************)
PatchRequests == 2   \* step updates sent during the run

\* req.body.completed
CompletedInputs == {"true", "false", "undefined"}

PatchFind == HandlerFind("patch")

\* resource.learningPath.id(stepId); step.completed = req.body.completed;
\* await resource.save(); res.json(resource).  Index 0 is an id no step has.
PatchSave ==
    /\ hpc = "patch"
    /\ \E i \in 0..Len(hdoc.learningPath), c \in CompletedInputs :
        IF i = 0
        THEN answered' = "404" /\ db' = db
        ELSE \E o \in SaveOutcomes(hdoc) :
                IF o = "ok"
                THEN /\ answered' = "200"
                     /\ db' = IF c = "undefined" THEN db
                              ELSE [db EXCEPT !.learningPath[i].completed = (c = "true")]
                ELSE answered' = "400" /\ db' = db
    /\ hpc' = "idle"
    /\ hdoc' = NoDoc
    /\ UNCHANGED <<requests, origin, runVars, net, appVars, checkerVars, validatorVars>>

PatchNets == {[CuratedPinned({}) EXCEPT !.clients = PatchRequests]}

\* a plan of two steps has been created and its run has been started
InitPatch ==
    /\ IdleCheckerVars /\ IdleValidatorVars /\ IdleAppVars
    /\ db \in {NewPlan(c, 2) : c \in Categories}
    /\ gpc = [r \in Runs |-> IF r = 1 THEN "find" ELSE "idle"]
    /\ IdleRunVars
    /\ net \in PatchNets

NextPatch ==
    \/ PatchFind
    \/ PatchSave
    \/ RunFind(1)
    \/ RunPlanLoading(1)
    \/ StepBegin(1)
    \/ GenerateStep(1, PlanOutputs)
    \/ ValidateStep(1)
    \/ FallbackStep(1)
    \/ StepSave(1)
    \/ StepCatch(1)
    \/ RunFinish(1)
    \/ CatchFind(1)
    \/ CatchSave(1)

SpecPatch == InitPatch /\ [][NextPatch]_vars

(***************************************************************************)
(* Scheduled notifications: one notification, the routes that schedule,    *)
(* trigger and cancel it, the two timers that mark it sent, and            *)
(* initializePendingNotifications at server start.  activeTimers holds the *)
(* timer set by scheduleNotificationTimer; scheduleSkillNotification sets  *)
(* a timer that no map holds.  A timer fires once scheduledFor has passed. *)
(***************************************************************************)
MaxRestarts == 1     \* server restarts per behaviour

NotifSet(f, v) == [notif EXCEPT ![f] = v]

OtherThanNotif == <<progress, checkerVars, validatorVars, enricherVars>>

\* router.post("/schedule"), router.post("/schedule-skill-reminder"):
\* the notification is saved `pending`, then scheduleNotificationTimer
Schedule ==
    /\ notif.status = "none"
    /\ \E o \in StorageOutcomes :
        notif' = IF o = "ok"
                 THEN [notif EXCEPT !.status = "pending", !.timer = "armed",
                                    !.answer = "200"]
                 ELSE NotifSet("answer", "500")
    /\ UNCHANGED OtherThanNotif

\* scheduleSkillNotification(resource): saved `pending`, then setTimeout
ScheduleSkill ==
    /\ notif.status = "none"
    /\ \E o \in StorageOutcomes :
        notif' = IF o = "ok"
                 THEN [notif EXCEPT !.status = "pending", !.skill = "armed"]
                 ELSE notif
    /\ UNCHANGED OtherThanNotif

\* the clock reaches scheduledFor
TimePasses ==
    /\ notif.status # "none" /\ ~notif.due
    /\ notif' = NotifSet("due", TRUE)
    /\ UNCHANGED OtherThanNotif

\* the timer of scheduleNotificationTimer fires: its callback starts
TimerFires ==
    /\ notif.timer = "armed" /\ notif.due
    /\ notif' = NotifSet("timer", "running")
    /\ UNCHANGED OtherThanNotif

\* await ScheduledNotification.findByIdAndUpdate(id, {status: "sent", ...});
\* activeTimers.delete(notifId); an error is logged and the entry stays
TimerUpdate ==
    /\ notif.timer = "running"
    /\ \E o \in StorageOutcomes :
        notif' = IF o = "ok"
                 THEN [notif EXCEPT !.status = "sent", !.timer = "none"]
                 ELSE NotifSet("timer", "spent")
    /\ UNCHANGED OtherThanNotif

\* the timer of scheduleSkillNotification fires: its callback starts
SkillFires ==
    /\ notif.skill = "armed" /\ notif.due
    /\ notif' = NotifSet("skill", "find")
    /\ UNCHANGED OtherThanNotif

\* const notif = await findById(...); if (notif && notif.status === "pending")
SkillFind ==
    /\ notif.skill = "find"
    /\ \E o \in StorageOutcomes :
        notif' = NotifSet("skill", IF o = "ok" /\ notif.status = "pending"
                                   THEN "save" ELSE "none")
    /\ UNCHANGED OtherThanNotif

\* notif.status = "sent"; await notif.save()
SkillSave ==
    /\ notif.skill = "save"
    /\ \E o \in StorageOutcomes :
        notif' = IF o = "ok"
                 THEN [notif EXCEPT !.status = "sent", !.skill = "none"]
                 ELSE NotifSet("skill", "none")
    /\ UNCHANGED OtherThanNotif

\* what clearTimeout and activeTimers.delete leave of the timer: a timer
\* that has not fired is cancelled, a callback that has started goes on
Cleared(t) == IF t = "running" THEN "running" ELSE "none"

\* router.post("/:id/trigger"): findById; 400 if the status is "sent"
TriggerFind ==
    /\ notif.tpc = "idle" /\ notif.status # "none"
    /\ \E o \in StorageOutcomes :
        notif' = IF o = "error" THEN NotifSet("answer", "500")
                 ELSE IF notif.status = "sent" THEN NotifSet("answer", "400")
                 ELSE NotifSet("tpc", "save")
    /\ UNCHANGED OtherThanNotif

\* notification.status = "sent"; await notification.save()
TriggerSave ==
    /\ notif.tpc = "save"
    /\ \E o \in StorageOutcomes :
        notif' = IF o = "ok"
                 THEN [notif EXCEPT !.status = "sent", !.tpc = "clear"]
                 ELSE [notif EXCEPT !.tpc = "idle", !.answer = "500"]
    /\ UNCHANGED OtherThanNotif

\* the timer is cleared and the request answered
TriggerClear ==
    /\ notif.tpc = "clear"
    /\ notif' = [notif EXCEPT !.timer = Cleared(@), !.tpc = "idle",
                              !.answer = "200"]
    /\ UNCHANGED OtherThanNotif

\* router.delete("/:id"): findById
DeleteFind ==
    /\ notif.dpc = "idle" /\ notif.status # "none"
    /\ \E o \in StorageOutcomes :
        notif' = IF o = "error" THEN NotifSet("answer", "500")
                 ELSE NotifSet("dpc", "save")
    /\ UNCHANGED OtherThanNotif

\* notification.status = "cancelled"; await notification.save()
DeleteSave ==
    /\ notif.dpc = "save"
    /\ \E o \in StorageOutcomes :
        notif' = IF o = "ok"
                 THEN [notif EXCEPT !.status = "cancelled", !.dpc = "clear",
                                    !.cancelled = TRUE]
                 ELSE [notif EXCEPT !.dpc = "idle", !.answer = "500"]
    /\ UNCHANGED OtherThanNotif

\* the timer is cleared and the request answered
DeleteClear ==
    /\ notif.dpc = "clear"
    /\ notif' = [notif EXCEPT !.timer = Cleared(@), !.dpc = "idle",
                              !.answer = "200"]
    /\ UNCHANGED OtherThanNotif

\* the server stops and starts again: timers, activeTimers and the requests
\* in flight are gone; initializePendingNotifications is called
Restart ==
    /\ notif.status # "none"
    /\ notif.restarts < MaxRestarts
    /\ notif' = [notif EXCEPT !.timer = "none", !.skill = "none",
                              !.tpc = "idle", !.dpc = "idle", !.ipc = "find",
                              !.restarts = @ + 1]
    /\ UNCHANGED OtherThanNotif

\* find({status: "pending"}); one that is not yet due gets a timer
ResumeFind ==
    /\ notif.ipc = "find"
    /\ \E o \in StorageOutcomes :
        notif' = IF o = "error" \/ notif.status # "pending"
                 THEN NotifSet("ipc", "idle")
                 ELSE IF notif.due THEN NotifSet("ipc", "save")
                 ELSE [notif EXCEPT !.ipc = "idle", !.timer = "armed"]
    /\ UNCHANGED OtherThanNotif

\* one that is overdue: notification.status = "sent"; await notification.save()
ResumeSave ==
    /\ notif.ipc = "save"
    /\ \E o \in StorageOutcomes :
        notif' = IF o = "ok"
                 THEN [notif EXCEPT !.status = "sent", !.ipc = "idle"]
                 ELSE NotifSet("ipc", "idle")
    /\ UNCHANGED OtherThanNotif

InitNotify ==
    /\ IdleCheckerVars /\ IdleValidatorVars /\ IdleAppVars
    /\ IdleEnricherVars

NextNotify ==
    \/ Schedule
    \/ ScheduleSkill
    \/ TimePasses
    \/ TimerFires
    \/ TimerUpdate
    \/ SkillFires
    \/ SkillFind
    \/ SkillSave
    \/ TriggerFind
    \/ TriggerSave
    \/ TriggerClear
    \/ DeleteFind
    \/ DeleteSave
    \/ DeleteClear
    \/ Restart
    \/ ResumeFind
    \/ ResumeSave

SpecNotify == InitNotify /\ [][NextNotify]_vars

(***************************************************************************)
(* UserProgress: addActivity and updateStreak on the user's record.  Dates *)
(* are counted in days; `today` is the date at local midnight.             *)
(***************************************************************************)
MaxActivities == 4   \* addActivity calls per behaviour
RetentionDays == 90  \* activities older than this are dropped

ActivityTypes == {"step_completed", "roadmap_created", "note_added", "resource_viewed"}

\* days between the previous call and this one: the same day, the next day,
\* a gap, and a gap longer than the retention window
DayJumps == {0, 1, 2, RetentionDays + 1}

\* userProgressSchema.methods.updateStreak
UpdateStreak(p) ==
    IF p.lastActivityDate = NoDate
    THEN [p EXCEPT !.currentStreak = 1, !.lastActivityDate = p.today]
    ELSE LET diffDays == p.today - p.lastActivityDate
             q == IF diffDays = 1
                  THEN [p EXCEPT !.currentStreak = @ + 1, !.lastActivityDate = p.today]
                  ELSE [p EXCEPT !.currentStreak = 1, !.lastActivityDate = p.today]
         IN  IF diffDays = 0 THEN p
             ELSE IF q.currentStreak > q.longestStreak
                  THEN [q EXCEPT !.longestStreak = q.currentStreak]
                  ELSE q

\* this.activities.filter((a) => a.date >= ninetyDaysAgo)
Recent(dates, today) == SelectSeq(dates, LAMBDA d : d >= today - RetentionDays)

\* userProgressSchema.methods.addActivity(type, ...), called on date `now`
AddActivity ==
    /\ progress.calls < MaxActivities
    /\ \E type \in ActivityTypes, k \in DayJumps :
        LET now == progress.today + k
        IN  progress' = UpdateStreak(
                [progress EXCEPT
                    !.today = now,
                    !.activities = Recent(Append(@, now), now),
                    !.totalStepsCompleted = IF type = "step_completed" THEN @ + 1 ELSE @,
                    !.totalRoadmapsCreated = IF type = "roadmap_created" THEN @ + 1 ELSE @,
                    !.totalNotesAdded = IF type = "note_added" THEN @ + 1 ELSE @,
                    !.calls = @ + 1])
    /\ UNCHANGED <<notif, checkerVars, validatorVars, enricherVars>>

InitStreak ==
    /\ IdleCheckerVars /\ IdleValidatorVars /\ IdleAppVars
    /\ IdleEnricherVars

NextStreak == AddActivity

SpecStreak == InitStreak /\ [][NextStreak]_vars

(***************************************************************************)
(* Reading the checker's history                                           *)
(***************************************************************************)
IsCall(e)  == e.kind # "WAIT"
\* the request that opens an attempt (the GET fallback is inside an attempt)
IsProbe(e) == e.kind = "HEAD" \/ e.kind = "OEMBED"
CallIdx  == {i \in DOMAIN log : IsCall(log[i])}
ProbeIdx == {i \in DOMAIN log : IsProbe(log[i])}

IsItemUrl(u)    == isYouTubeUrl(u) /\ ~isYouTubeChannelUrl(u)
IsChannelUrl(u) == isYouTubeUrl(u) /\ isYouTubeChannelUrl(u)

AllTimedOut == \A i \in CallIdx : log[i].out.err = "timeout"

\* the call at position i made validateUrl return true
Accepted(i) == i = Len(log) /\ cpc = "done" /\ result = TRUE

\* the history of a run whose every attempt failed by exception, the first
\* wait lasting `first` ms and every later one twice the one before:
\* call 1, wait 1, call 2, ..., call maxRetries
ExhaustedWith(first) ==
    /\ Cardinality(ProbeIdx) = maxRetries
    /\ Len(log) = IF maxRetries = 0 THEN 0 ELSE 2 * maxRetries - 1
    /\ \A k \in 1..maxRetries :
          IsProbe(log[2 * k - 1]) /\ log[2 * k - 1].attempt = k
    /\ \A k \in 1..(maxRetries - 1) :
          log[2 * k].kind = "WAIT" /\ log[2 * k].ms = first * (2 ^ (k - 1))
    /\ result = FALSE

(***************************************************************************)
(* C3.  Original statement: a check whose every outbound call times out    *)
(* makes exactly maxRetries attempts, waits 100, 200, 400, ... ms between  *)
(* consecutive attempts (100 x 2^k, k from 0) and returns invalid.         *)
(***************************************************************************)
C3_Original ==
    (cpc = "done" /\ AllTimedOut) => ExhaustedWith(100)

\* C3 as amended: a check whose every outbound call times out makes exactly
\* maxRetries attempts, waits 200, 400, 800, ... ms between consecutive
\* attempts (100 x 2^k for the k-th wait, k starting at 1), and then
\* returns invalid.
C3_Amended ==
    (cpc = "done" /\ AllTimedOut) => ExhaustedWith(200)

C3_Witness ==
    /\ cpc = "done" /\ AllTimedOut /\ ~isYouTubeUrl(url)
    /\ maxRetries = 3 /\ Len(log) = 5 /\ log[4].ms = 400

(***************************************************************************)
(* C4.  Original statement: for a channel URL the checker issues a single  *)
(* existence probe; when it fails, throws or times out the checker returns *)
(* invalid without any further attempt.                                    *)
(***************************************************************************)
C4_Original ==
    IsChannelUrl(url) => Cardinality(CallIdx) <= 1

\* C4 as amended: for a channel URL every attempt is one existence probe
\* (HEAD; no metadata lookup, no GET), 2xx/3xx makes it valid and any other
\* status, exception or timeout makes that attempt invalid; validateUrl
\* retries it, up to maxRetries probes, and returns invalid only after
\* maxRetries failed probes.
C4_Amended ==
    IsChannelUrl(url) =>
        /\ \A i \in CallIdx : log[i].kind = "HEAD"
        /\ Cardinality(CallIdx) <= maxRetries
        /\ \A i \in CallIdx :
              /\ log[i].attempt = Cardinality({j \in CallIdx : j <= i})
              /\ (~Throws(log[i].out) /\ StatusOk(log[i].out.status))
                    <=> Accepted(i)
        /\ (cpc = "done" /\ result = FALSE) => Cardinality(CallIdx) = maxRetries

C4_Witness ==
    /\ IsChannelUrl(url) /\ cpc = "done" /\ result = FALSE
    /\ maxRetries = 3 /\ Cardinality(CallIdx) = 3
    /\ log[1].out.err = "timeout"

(***************************************************************************)
(* C5.  Original statement: for an item URL an attempt is valid iff the    *)
(* metadata endpoint answers 200 and the parsed body has a non-empty title *)
(* and an author_name (present).                                           *)
(***************************************************************************)
GoodEmbedPresent(o) ==
    /\ ~Throws(o) /\ o.status = 200 /\ o.body.parses
    /\ o.body.title = "text" /\ o.body.author_name # "absent"

GoodEmbed(o) ==
    /\ ~Throws(o) /\ o.status = 200 /\ o.body.parses
    /\ o.body.title = "text" /\ o.body.author_name = "text"

C5_Original ==
    IsItemUrl(url) =>
        \A i \in CallIdx : GoodEmbedPresent(log[i].out) <=> Accepted(i)

\* C5 as amended: for an item URL an attempt is valid iff the metadata
\* endpoint answers HTTP 200 and the parsed body has both a non-empty title
\* and a non-empty author_name; any other status, parse failure, timeout, or
\* a body whose title or author_name is missing or empty makes the attempt
\* invalid, and when every attempt is so the checker returns invalid.
C5_Amended ==
    IsItemUrl(url) =>
        /\ \A i \in CallIdx :
              log[i].kind = "OEMBED" /\ (GoodEmbed(log[i].out) <=> Accepted(i))
        /\ (cpc = "done" /\ \A i \in CallIdx : ~GoodEmbed(log[i].out))
              => result = FALSE

C5_Witness ==
    /\ IsItemUrl(url) /\ cpc = "done" /\ result = TRUE /\ Len(log) = 3
    /\ log[1].out.status = 200 /\ log[1].out.body.parses
    /\ log[1].out.body.title = "text" /\ log[1].out.body.author_name = "absent"

(***************************************************************************)
(* C6.  For an item URL the checker makes at most maxRetries attempts,     *)
(* returns valid at the first successful attempt without a later attempt,  *)
(* and waits 100ms x 2^attempt between consecutive attempts (attempt being *)
(* the 1-based number of the attempt that just failed).                    *)
(***************************************************************************)
C6_ItemRetry ==
    IsItemUrl(url) =>
        /\ Cardinality(ProbeIdx) <= maxRetries
        /\ \A i \in ProbeIdx :
              /\ log[i].attempt = Cardinality({j \in ProbeIdx : j <= i})
              /\ validateYouTubeUrl(url, log[i].out) => Accepted(i)
              /\ i > 1 =>
                    /\ log[i - 1].kind = "WAIT"
                    /\ log[i - 1].ms = 100 * (2 ^ (log[i].attempt - 1))
                    /\ IsProbe(log[i - 2])
        /\ \A i \in DOMAIN log :
              log[i].kind = "WAIT" =>
                    /\ i > 1 /\ IsProbe(log[i - 1])
                    /\ log[i].ms = 100 * (2 ^ log[i - 1].attempt)
                    /\ log[i - 1].attempt < maxRetries
        /\ (cpc = "done" /\ result = FALSE) => Cardinality(ProbeIdx) = maxRetries

C6_Witness ==
    /\ IsItemUrl(url) /\ cpc = "done" /\ result = TRUE
    /\ maxRetries = 3 /\ Len(log) = 3 /\ log[2].ms = 200

(***************************************************************************)
(* C7.  For a generic URL validateUrl returns valid iff, in one of at most *)
(* maxRetries attempts, the probe returns 2xx/3xx, or the probe returns    *)
(* 403/405 and the full fetch of that same attempt returns 2xx/3xx; the    *)
(* full fetch is issued at most once per attempt, only after 403/405.      *)
(***************************************************************************)
Succeeds(i) == ~Throws(log[i].out) /\ StatusOk(log[i].out.status)

C7_Generic ==
    ~isYouTubeUrl(url) =>
        /\ \A i \in CallIdx : log[i].kind \in {"HEAD", "GET"}
        /\ Cardinality(ProbeIdx) <= maxRetries
        /\ \A i \in ProbeIdx :
              log[i].attempt = Cardinality({j \in ProbeIdx : j <= i})
        /\ \A i \in CallIdx :
              log[i].kind = "GET" =>
                    /\ i > 1 /\ log[i - 1].kind = "HEAD"
                    /\ log[i - 1].attempt = log[i].attempt
                    /\ ~Throws(log[i - 1].out)
                    /\ log[i - 1].out.status \in {403, 405}
        /\ \A i \in CallIdx : Succeeds(i) <=> Accepted(i)
        /\ cpc = "done" =>
              (result = TRUE <=> \E i \in CallIdx : Succeeds(i))

C7_Witness ==
    /\ ~isYouTubeUrl(url) /\ cpc = "done" /\ result = TRUE /\ Len(log) = 4
    /\ log[1].out.status = 403 /\ log[2].out.status = 500
    /\ log[3].out.status = 405 /\ log[4].kind = "GET"

(***************************************************************************)
(* C8.  validateUrl never throws: an exception or timeout of any outbound  *)
(* call only fails the current attempt, and the checker always ends with a *)
(* boolean after at most maxRetries attempts.                              *)
(***************************************************************************)
C8_NeverThrows ==
    /\ cpc # "thrown"
    /\ Cardinality(ProbeIdx) <= maxRetries
    /\ Len(log) <= 3 * maxRetries
    /\ \A i \in CallIdx : Throws(log[i].out) => ~Accepted(i)
    /\ \A i \in CallIdx :
          (Throws(log[i].out) /\ log[i].attempt < maxRetries /\ cpc = "done")
             => \E j \in ProbeIdx : j > i /\ log[j].attempt = log[i].attempt + 1
    /\ cpc = "done" => result \in BOOLEAN
    /\ cpc # "done" => ENABLED NextChecker

C8_Witness ==
    /\ cpc = "done" /\ result = TRUE /\ ~isYouTubeUrl(url)
    /\ \E i \in CallIdx : log[i].kind = "HEAD" /\ log[i].out.err = "network"
    /\ \E i \in CallIdx : log[i].kind = "GET" /\ log[i].out.err = "timeout"

(***************************************************************************)
(* C9.  The claim: in both retrying paths every pair of consecutive        *)
(* attempts is separated by a backoff delay; no attempt starts right after *)
(* a failed one, whether it failed by exception or by a rejected status.   *)
(***************************************************************************)
C9_BackoffBetweenAttempts ==
    \A i \in ProbeIdx :
        i > 1 => /\ log[i - 1].kind = "WAIT"
                 /\ log[i - 1].ms = BackoffDelay(log[i].attempt - 1)


(***************************************************************************)
(* Reading the validator's history                                         *)
(***************************************************************************)
Started     == 1..Len(calls)          \* checks started so far
ReturnedIdx == DOMAIN verdict         \* checks that have returned
BatchOf(i)  == (i - 1) \div concurrency

\* the candidates whose check returned true, in input order
RECURSIVE Survivors(_)
Survivors(i) ==
    IF i > Len(resources) THEN <<>>
    ELSE (IF verdict[i] THEN <<resources[i]>> ELSE <<>>) \o Survivors(i + 1)

(***************************************************************************)
(* C1.  For every candidate list and every concurrency C >= 1 the          *)
(* validator never has more than C link checks in flight, and no check of  *)
(* batch k+1 starts before every check of batch k has returned.            *)
(***************************************************************************)
C1_BoundedBatches ==
    /\ inflight = Started \ ReturnedIdx
    /\ Cardinality(Started \ ReturnedIdx) <= concurrency
    /\ \A i \in Started : calls[i] = resources[i].url
    /\ \A i \in Started : \A j \in 1..Len(resources) :
          BatchOf(j) < BatchOf(i) => j \in ReturnedIdx

C1_Witness ==
    /\ Len(resources) = 4 /\ concurrency = 3
    /\ Cardinality(inflight) = 3 /\ ReturnedIdx = {}

(***************************************************************************)
(* C2.  The validator returns exactly the candidates whose link check      *)
(* returned true, each with its original title/url/type and no extra       *)
(* field, drops every other candidate, and never raises an error because   *)
(* a candidate failed.                                                     *)
(***************************************************************************)
C2_SurvivorsOnly ==
    /\ vpc # "thrown"
    /\ vpc = "done" =>
          /\ ReturnedIdx = 1..Len(resources)
          /\ returned = Survivors(1)
          /\ \A k \in 1..Len(returned) :
                /\ DOMAIN returned[k] = {"title", "url", "type"}
                /\ returned[k] \in Candidates

C2_Witness ==
    /\ vpc = "done" /\ Len(resources) = 4 /\ concurrency = 3
    /\ verdict[1] = FALSE /\ verdict[2] = TRUE /\ verdict[3] = FALSE
    /\ verdict[4] = TRUE /\ Len(returned) = 2


(***************************************************************************)
(* C10.  When a step's enrichment completes without exception, its         *)
(* persisted status is `ready` iff at least one validated resource         *)
(* (generated or fallback) survived, and `failed` otherwise.               *)
(***************************************************************************)
SomeSurvived(r, i) ==
    checked[r][i].survivors # {} \/ checked[r][i].fallbackSurvivors # {}

C10_StepStatus ==
    \A r \in Runs : \A i \in DOMAIN outcome[r] :
        outcome[r][i] = "normal" =>
            /\ db.learningPath[i].resourcesStatus = "ready" <=> SomeSurvived(r, i)
            /\ db.learningPath[i].resourcesStatus = "failed" <=> ~SomeSurvived(r, i)
            /\ Len(db.learningPath[i].resources) > 0 <=> SomeSurvived(r, i)

C10_Witness ==
    /\ gpc[1] = "done" /\ Len(outcome[1]) = 1 /\ outcome[1][1] = "normal"
    /\ db.resourcesStatus = "ready"
    /\ db.learningPath[1].resourcesStatus = "failed"
    /\ Len(checked[1][1].candidates) = 2 /\ Len(checked[1][1].additional) = 5
    /\ ~SomeSurvived(1, 1)

(***************************************************************************)
(* Reading a run's history: step i of run r was taken through the loop     *)
(* body and left it on the normal path, through the step's catch block, or *)
(* by an exception that escaped the catch block.                           *)
(***************************************************************************)
Attempted(r, i) == i \in DOMAIN outcome[r]
EndedNormally(r, i) == Attempted(r, i) /\ outcome[r][i] = "normal"
EndedInCatch(r, i)  == Attempted(r, i) /\ outcome[r][i] = "exception"
Escaped(r, i)       == Attempted(r, i) /\ outcome[r][i] = "escaped"

(***************************************************************************)
(* C12.  Original statement: once a step has been attempted by the         *)
(* enricher it always reports `ready`, however many resources survived: a  *)
(* step that ends with zero resources still reports `ready`.               *)
(***************************************************************************)
C12_Original ==
    \A r \in Runs : \A i \in DOMAIN outcome[r] :
        EndedNormally(r, i) => db.learningPath[i].resourcesStatus = "ready"

(***************************************************************************)
(* C12, amended.  A step whose enrichment ended (on the normal path or in  *)
(* the step's catch block) with zero resources reports `failed`, and one   *)
(* that reports `ready` holds at least one resource.                       *)
(***************************************************************************)
C12_Amended ==
    \A r \in Runs : \A i \in DOMAIN outcome[r] :
        (EndedNormally(r, i) \/ EndedInCatch(r, i)) =>
            /\ Len(db.learningPath[i].resources) = 0
                  => db.learningPath[i].resourcesStatus = "failed"
            /\ db.learningPath[i].resourcesStatus = "ready"
                  => Len(db.learningPath[i].resources) >= 1

\* the generator failed, the category has no curated list: nothing survived,
\* the step is stored failed while the plan is stored ready
C12_Witness ==
    /\ gpc[1] = "done" /\ EndedNormally(1, 1)
    /\ db.category = "music"
    /\ ~checked[1][1].genOk
    /\ Len(db.learningPath[1].resources) = 0
    /\ db.learningPath[1].resourcesStatus = "failed"
    /\ db.resourcesStatus = "ready"

(***************************************************************************)
(* C14.  The curated table is consulted iff fewer than 3 generated         *)
(* candidates survive validation; then exactly the first                   *)
(* min(5 - survivors, length) entries of the plan category's list are      *)
(* drawn (none for a category the table does not list), each is validated  *)
(* and only the valid ones are appended; with 3 or more survivors no       *)
(* curated entry is checked or added.                                      *)
(***************************************************************************)
\* the table's list for a category, empty for a category it does not list
CuratedList(c) ==
    IF c \in DOMAIN curatedResources THEN curatedResources[c] ELSE <<>>

\* the generated candidates of step i of run r that survived, in order
OwnSurvivors(r, i) == Keep(checked[r][i].candidates, checked[r][i].survivors, 1)

\* the curated entries checked for step i of run r that survived, in order
CuratedSurvivors(r, i) ==
    Keep(checked[r][i].additional, checked[r][i].fallbackSurvivors, 1)

C14_FallbackTopUp ==
    \A r \in Runs : \A i \in DOMAIN outcome[r] :
        EndedNormally(r, i) =>
            LET c    == checked[r][i]
                n    == Cardinality(checked[r][i].survivors)
                list == CuratedList(db.category)
            IN  /\ c.fallbackUsed <=> n < 3
                /\ c.fallbackUsed =>
                     /\ c.additional = SubSeq(list, 1, Min(5 - n, Len(list)))
                     /\ db.learningPath[i].resources =
                            OwnSurvivors(r, i) \o CuratedSurvivors(r, i)
                /\ ~c.fallbackUsed =>
                     /\ c.additional = <<>> /\ c.fallbackSurvivors = {}
                     /\ db.learningPath[i].resources =
                            SubSeq(OwnSurvivors(r, i), 1,
                                   Min(5, Len(OwnSurvivors(r, i))))

\* two of four generated candidates survive: the first three entries of the
\* category's list are checked, two of them survive and are appended
C14_Witness ==
    /\ gpc[1] = "done" /\ EndedNormally(1, 1)
    /\ db.category = "frontend"
    /\ Len(checked[1][1].candidates) = 4
    /\ checked[1][1].survivors = {2, 4}
    /\ checked[1][1].fallbackUsed
    /\ Len(checked[1][1].additional) = 3
    /\ checked[1][1].fallbackSurvivors = {1, 3}
    /\ Len(db.learningPath[1].resources) = 4
    /\ db.learningPath[1].resources[3].title = "MDN Web Docs"
    /\ db.learningPath[1].resources[4].title = "Vue.js Guide"

(***************************************************************************)
(* C15.  A failure of the content generator for a step (an exception or    *)
(* unparsable output) is treated as zero candidates and is not propagated: *)
(* the step goes on to validation and to the curated top-up on the normal  *)
(* path; the step's catch block is not entered on its account.             *)
(***************************************************************************)
\* run r is past the generator call of the step it is at
PastGenerate(r) ==
    gpc[r] \in {"validate", "fallback", "step_save"}

C15_GeneratorFailure ==
    \A r \in Runs : \A i \in DOMAIN checked[r] :
        ~checked[r][i].genOk =>
            /\ checked[r][i].candidates = <<>>
            /\ checked[r][i].survivors = {}
            \* right after the failure the run is at the validation call
            /\ (i = stepIdx[r] /\ ~Attempted(r, i) /\ gpc[r] # "step_catch")
                  => PastGenerate(r)
            \* the catch block is reached only past the top-up
            /\ (i = stepIdx[r] /\ gpc[r] = "step_catch")
                  => checked[r][i].fallbackUsed
            /\ Attempted(r, i) => checked[r][i].fallbackUsed
            /\ EndedNormally(r, i) =>
                  db.learningPath[i].resources = CuratedSurvivors(r, i)

\* the generator failed, the step went through the top-up and is stored
\* ready with curated entries only
C15_Witness ==
    /\ gpc[1] = "done" /\ EndedNormally(1, 1)
    /\ ~checked[1][1].genOk
    /\ db.category = "mobile"
    /\ Len(checked[1][1].additional) = 5
    /\ checked[1][1].fallbackSurvivors = {2, 5}
    /\ db.learningPath[1].resourcesStatus = "ready"
    /\ Len(db.learningPath[1].resources) = 2

(***************************************************************************)
(* C16.  When an exception escapes the normal path of a step's enrichment, *)
(* the step is stored `failed` with at most 3 curated entries attached     *)
(* without validation (the first three of the category's list), and the    *)
(* run goes on to the next step.                                           *)
(***************************************************************************)
C16_CatchGoesOn ==
    \A r \in Runs : \A i \in DOMAIN outcome[r] :
        ~EndedNormally(r, i) =>
            LET list == CuratedList(db.category) IN
            /\ db.learningPath[i].resourcesStatus = "failed"
            /\ Len(db.learningPath[i].resources) <= 3
            /\ db.learningPath[i].resources = SubSeq(list, 1, Min(3, Len(list)))
            /\ ~Escaped(r, i)
            /\ gpc[r] \notin {"catch_find", "catch_save"}

(***************************************************************************)
(* C17.  A step enriched with a generator that throws, in a plan whose     *)
(* category the curated table does not list, ends with status `failed`     *)
(* and at most 3 resources attached, none of them validated.               *)
(***************************************************************************)
\* the stored resources of step i that a link check of run r let through
ValidatedStored(r, i) ==
    {k \in DOMAIN db.learningPath[i].resources :
        \/ \E j \in checked[r][i].survivors :
              checked[r][i].candidates[j] = db.learningPath[i].resources[k]
        \/ \E j \in checked[r][i].fallbackSurvivors :
              checked[r][i].additional[j] = db.learningPath[i].resources[k]}

C17_ThrowingGenerator ==
    \A r \in Runs : \A i \in DOMAIN outcome[r] :
        (~checked[r][i].genOk /\ db.category \notin DOMAIN curatedResources) =>
            /\ db.learningPath[i].resourcesStatus = "failed"
            /\ Len(db.learningPath[i].resources) <= 3
            /\ ValidatedStored(r, i) = {}

(***************************************************************************)
(* C18.  A step enriched with a generator that returns 0 candidates, in a  *)
(* category the table lists with at least 3 entries that pass validation,  *)
(* ends with status `ready` and at least 1 resource, all of them curated   *)
(* entries that passed validation.                                         *)
(***************************************************************************)
C18_CuratedOnly ==
    \A r \in Runs : \A i \in DOMAIN outcome[r] :
        ( /\ EndedNormally(r, i)
          /\ checked[r][i].genOk /\ checked[r][i].candidates = <<>>
          /\ db.category \in DOMAIN curatedResources
          /\ Cardinality(checked[r][i].fallbackSurvivors) >= 3 ) =>
            /\ db.learningPath[i].resourcesStatus = "ready"
            /\ Len(db.learningPath[i].resources) >= 1
            /\ \A k \in DOMAIN db.learningPath[i].resources :
                  \E j \in checked[r][i].fallbackSurvivors :
                      /\ db.learningPath[i].resources[k] = checked[r][i].additional[j]
                      /\ checked[r][i].additional[j] = curatedResources[db.category][j]

\* no candidate, five curated entries checked, three of them pass
C18_Witness ==
    /\ gpc[1] = "done" /\ EndedNormally(1, 1)
    /\ checked[1][1].genOk /\ checked[1][1].candidates = <<>>
    /\ db.category = "frontend"
    /\ checked[1][1].fallbackSurvivors = {1, 4, 5}
    /\ db.learningPath[1].resourcesStatus = "ready"
    /\ Len(db.learningPath[1].resources) = 3
    /\ db.learningPath[1].resources[3].title = "freeCodeCamp"

(***************************************************************************)
(* The end-to-end scenario: a run over a 2-step plan, none of whose        *)
(* storage calls fails, with a generator that returns 5 candidates for     *)
(* step 1, of which 3 pass validation, and 5 for step 2, of which none     *)
(* passes.                                                                 *)
(***************************************************************************)
\* the entries among the first n of category c's list that answer
ValidCurated(c, n) ==
    {k \in 1..Min(n, Len(CuratedList(c))) : CuratedList(c)[k].url \notin net.dead}

ScenarioRun ==
    /\ gpc[1] = "done" /\ ~faulty[1]
    /\ Len(db.learningPath) = 2 /\ Len(checked[1]) = 2
    /\ checked[1][1].genOk /\ Len(checked[1][1].candidates) = 5
    /\ Cardinality(checked[1][1].survivors) = 3
    /\ checked[1][2].genOk /\ Len(checked[1][2].candidates) = 5
    /\ checked[1][2].survivors = {}
    /\ db.category \in DOMAIN curatedResources
    /\ CuratedUrls \subseteq net.pinned

ScenarioResult ==
    /\ db.learningPath[1].resourcesStatus = "ready"
    /\ Len(db.learningPath[1].resources) = 3
    /\ db.learningPath[2].resourcesStatus = "ready"
    /\ Len(db.learningPath[2].resources) = 4
    /\ \A k \in 1..Len(db.learningPath[2].resources) :
          \E j \in DOMAIN CuratedList(db.category) :
              db.learningPath[2].resources[k] = CuratedList(db.category)[j]
    /\ db.resourcesStatus = "ready"

(***************************************************************************)
(* C19.  Original statement: in the scenario, with a category holding 4    *)
(* valid curated entries, the run ends with step 1 `ready` holding 3       *)
(* resources, step 2 `ready` holding 4 curated resources and the plan      *)
(* `ready`.                                                                *)
(***************************************************************************)
C19_Original ==
    ( /\ ScenarioRun
      /\ Cardinality(ValidCurated(db.category, Len(CuratedList(db.category)))) = 4 )
        => ScenarioResult

(***************************************************************************)
(* C19, amended.  In the scenario, with a category whose first 5 curated   *)
(* entries include exactly 4 valid ones, the run ends with step 1 `ready`  *)
(* holding 3 resources, step 2 `ready` holding those 4 curated entries and *)
(* the plan `ready`.                                                       *)
(***************************************************************************)
C19_Amended ==
    ( /\ ScenarioRun
      /\ Cardinality(ValidCurated(db.category, 5)) = 4 )
        => /\ ScenarioResult
           /\ \A k \in 1..4 : \E j \in ValidCurated(db.category, 5) :
                 db.learningPath[2].resources[k] = CuratedList(db.category)[j]

\* the scenario in a category of 5 entries, the third of which is dead
C19_Witness ==
    /\ ScenarioRun
    /\ db.category = "mobile"
    /\ ValidCurated("mobile", 5) = {1, 2, 4, 5}
    /\ checked[1][1].survivors = {1, 3, 5}
    /\ ~checked[1][1].fallbackUsed
    /\ Len(checked[1][2].additional) = 5
    /\ Len(db.learningPath[2].resources) = 4
    /\ db.learningPath[2].resources[3].title = "Android Developers"

(***************************************************************************)
(* C20.  Within one run a step's failure never stops the iteration: when   *)
(* a run that entered the loop over the steps completes, every step of the *)
(* plan has been attempted and is stored `ready` or `failed`, none         *)
(* `pending` or `loading`.                                                 *)
(***************************************************************************)
C20_IterationNeverStops ==
    \A r \in Runs :
        (gpc[r] = "done" /\ checked[r] # <<>>) =>
            \A i \in DOMAIN db.learningPath :
                /\ i \in DOMAIN checked[r]
                /\ db.learningPath[i].resourcesStatus \in {"ready", "failed"}

(***************************************************************************)
(* C11.  In every stored state, under any sequence and interleaving of     *)
(* create, enrichment run, retry, extend and add-step, a step whose        *)
(* resourcesStatus is `ready` has at least one resource.                   *)
(***************************************************************************)
C11_ReadyHasResources ==
    \A i \in DOMAIN db.learningPath :
        db.learningPath[i].resourcesStatus = "ready"
            => Len(db.learningPath[i].resources) >= 1

\* two runs in flight over a plan a request has rewritten: the first step
\* is stored ready with resources while the second is being enriched
C11_Witness ==
    /\ requests = 1
    /\ \A r \in Runs : gpc[r] \notin {"idle", "done"}
    /\ Len(db.learningPath) = 2
    /\ db.learningPath[1].resourcesStatus = "ready"
    /\ Len(db.learningPath[1].resources) = 5
    /\ db.learningPath[2].resourcesStatus = "loading"
    /\ Len(db.learningPath[2].resources) = 0

EndedMidPlan(r) ==
    /\ gpc[r] = "done" /\ db.exists
    /\ \/ Len(outcome[r]) < Len(db.learningPath)
       \/ \E i \in DOMAIN outcome[r] : outcome[r][i] = "escaped"

TerminalPlanStatus == {"ready", "failed"}

TruthfulSteps(d) ==
    \A i \in DOMAIN d.learningPath :
        LET st == d.learningPath[i] IN
        /\ st.resourcesStatus # "loading"
        /\ d.resourcesStatus \in TerminalPlanStatus => st.resourcesStatus # "pending"
        /\ st.resourcesStatus = "ready" => Len(st.resources) > 0

C21_TruthfulAfterCrash ==
    \A r \in Runs : EndedMidPlan(r) => TruthfulSteps(db)

(***************************************************************************)
(* C22.  A run stores plan status `loading` before it sets any step to     *)
(* `loading`; when every step has been attempted and the last save         *)
(* succeeds it stores plan status `ready` whatever the steps' statuses,    *)
(* also when every step is `failed`; plan status `failed` is only ever     *)
(* stored by the plan-level exception handler.                             *)
(***************************************************************************)
InStepLoop(r) ==
    gpc[r] \in {"step_begin", "generate", "validate", "fallback", "step_save",
                "step_catch", "finish"}

AllAttempted(r) ==
    /\ Len(outcome[r]) = Len(db.learningPath)
    /\ \A i \in DOMAIN outcome[r] : outcome[r][i] # "escaped"

C22_PlanStatus ==
    /\ InStepLoop(1) => db.resourcesStatus = "loading"
    /\ (\E i \in DOMAIN db.learningPath :
            db.learningPath[i].resourcesStatus # "pending")
          => db.resourcesStatus # "pending"
    /\ (gpc[1] = "done" /\ db.exists /\ AllAttempted(1) /\ ~faulty[1])
          => db.resourcesStatus = "ready"
    /\ db.resourcesStatus = "failed"
          => /\ gpc[1] = "done"
             /\ faulty[1] \/ ~AllAttempted(1)

\* every step was attempted and ended failed, the plan is stored ready
C22_Witness ==
    /\ gpc[1] = "done" /\ AllAttempted(1) /\ ~faulty[1]
    /\ Len(db.learningPath) = 2
    /\ \A i \in DOMAIN db.learningPath :
           db.learningPath[i].resourcesStatus = "failed"
    /\ db.resourcesStatus = "ready"

(***************************************************************************)
(* C23.  An exception outside the per-step handler (the initial load, a    *)
(* plan-level save, an exception of the step's own catch block) takes the  *)
(* run to the plan-level handler, which makes one attempt to store plan    *)
(* status `failed`: one load and, when the plan was loaded, one save of    *)
(* the loaded document with status `failed`.  Whatever the outcome of the  *)
(* attempt the run then returns: it never rejects and tries nothing more.  *)
(***************************************************************************)
\* the step taken is an exception of run r outside the per-step handler
ThrowsOutsideStep(r) ==
    \/ gpc[r] \in {"find", "plan_loading", "finish"} /\ ~faulty[r] /\ faulty'[r]
    \/ /\ gpc[r] = "step_catch"
       /\ Len(outcome'[r]) = Len(outcome[r]) + 1
       /\ outcome'[r][Len(outcome'[r])] = "escaped"

C23_OneFailedWrite ==
    [][\A r \in Runs :
        /\ gpc'[r] # "rejected"
        /\ ThrowsOutsideStep(r) => gpc'[r] = "catch_find"
        /\ gpc[r] = "catch_find"
              => /\ gpc'[r] \in {"catch_find", "catch_save", "done"}
                 /\ db' = db
        /\ gpc[r] = "catch_save"
              => /\ gpc'[r] \in {"catch_save", "done"}
                 /\ gpc'[r] = "done"
                       => /\ doc'[r] = [doc[r] EXCEPT !.resourcesStatus = "failed"]
                          /\ db' \in {db, doc'[r]}
        /\ gpc[r] = "done" => gpc'[r] \in {"done", "find"}
      ]_vars

\* the save of plan status `loading` was rejected and the handler stored
\* `failed`
C23_Witness ==
    /\ gpc[1] = "done" /\ faulty[1]
    /\ outcome[1] = <<>> /\ stepIdx[1] = 0
    /\ db.exists /\ db.resourcesStatus = "failed"

(***************************************************************************)
(* C24.  A run started for a plan id that storage does not hold returns    *)
(* without writing anything and without raising an error: nothing is       *)
(* stored at any time, and the run goes from its load straight to its      *)
(* return (through the plan-level handler's load when the first load       *)
(* itself failed).                                                         *)
(***************************************************************************)
C24_MissingPlan ==
    ~db.exists =>
        /\ db = NoDoc
        /\ \A r \in Runs :
            /\ gpc[r] \in {"idle", "find", "catch_find", "done"}
            /\ gpc[r] = "catch_find" => faulty[r]
            /\ doc[r] = NoDoc /\ outcome[r] = <<>> /\ checked[r] = <<>>

\* the load found no plan and the run has returned
C24_Witness ==
    /\ ~db.exists /\ db = NoDoc
    /\ gpc[1] = "done" /\ ~faulty[1]

(***************************************************************************)
(* C25.  Retry stores the plan and every one of its steps as `pending`     *)
(* with an empty resource list before the run it starts performs its first *)
(* write: at the step that starts the run, storage holds the reset         *)
(* document and the run has not yet loaded anything.                       *)
(***************************************************************************)
AllPending(d) ==
    /\ d.exists /\ d.resourcesStatus = "pending"
    /\ \A i \in DOMAIN d.learningPath :
        /\ d.learningPath[i].resourcesStatus = "pending"
        /\ d.learningPath[i].resources = <<>>

\* the step taken starts run r
Starts(r) == gpc[r] \in {"idle", "done"} /\ gpc'[r] = "find"

C25_RetryResetsFirst ==
    [][\A r \in Runs :
        (hpc = "retry" /\ Starts(r)) =>
            /\ AllPending(db')
            /\ Len(db'.learningPath) = Len(hdoc.learningPath)
            /\ db'.category = hdoc.category
            /\ doc'[r] = NoDoc /\ outcome'[r] = <<>>
      ]_vars

\* a retry has just started run 2 on the reset plan, while run 1, which
\* had stored resources on step 1, is still in flight
C25_Witness ==
    /\ origin[2] = "retry" /\ gpc[2] = "find"
    /\ gpc[1] \notin {"idle", "done"}
    /\ AllPending(db)
    /\ Len(doc[1].learningPath) = 2
    /\ doc[1].learningPath[1].resourcesStatus = "ready"
    /\ Len(doc[1].learningPath[1].resources) = 5

(***************************************************************************)
(* C26.  With a generator and a checker that answer the same way every     *)
(* time (and storage calls that succeed), two retries issued one after the *)
(* other, each run awaited, leave the plan in the same terminal state both *)
(* times: same plan status, same status and same resources on every step.  *)
(* Run 2 is the run of the first retry, run 1 that of the second; a run    *)
(* that has returned holds the document it stored last.                    *)
(***************************************************************************)
Quiet == hpc = "idle" /\ FreeRuns = Runs

ExtendLabels == {"extend", "extend_roadmap"}

C28_AcceptedLinksKept ==
    [][\A i \in DOMAIN db.learningPath :
        (db.learningPath[i].resourcesStatus = "ready" /\ hpc # "retry") =>
            /\ i \in DOMAIN db'.learningPath
            /\ db'.learningPath[i].resources = db.learningPath[i].resources
            /\ db'.learningPath[i].resourcesStatus = "ready"
      ]_vars

(***************************************************************************)
(* C29.  Retry and extend do not look at whether a run is in flight: once  *)
(* the handler has loaded the plan, its save and the start of a new run    *)
(* can be taken whatever the other runs are doing, so that two runs work   *)
(* on one plan at once and the one that writes last wins.  A state this    *)
(* reaches: the older run has returned and storage holds its document,     *)
(* plan `ready`, while the newer run still has steps `loading` or          *)
(* `pending`.                                                              *)
(***************************************************************************)
InFlight(r) == gpc[r] \notin {"idle", "done"}

C29_NoInFlightCheck ==
    /\ (hpc = "retry" /\ FreeRuns # {}) => ENABLED RetrySave
    /\ (hpc = "extend" /\ FreeRuns # {}) => ENABLED ExtendSave
    /\ (hpc = "extend_roadmap" /\ FreeRuns # {}) => ENABLED AiExtendSave
    /\ (hpc = "idle" /\ db.exists /\ requests < net.clients)
          => ENABLED RetryFind /\ ENABLED ExtendFind /\ ENABLED AiExtendFind

\* run 1, started by the creation, has returned and its last write made the
\* stored plan ready; run 2, started by a retry while run 1 was in flight,
\* is at work on step 1, which is stored as loading under the ready plan; no
\* storage call of either run failed
C29_Witness ==
    /\ origin[1] = "create" /\ gpc[1] = "done" /\ ~faulty[1]
    /\ origin[2] = "retry" /\ gpc[2] = "generate" /\ stepIdx[2] = 1 /\ ~faulty[2]
    /\ outcome[1] = <<"normal", "normal">>
    /\ db.resourcesStatus = "ready"
    /\ db.learningPath[1].resourcesStatus = "loading"
    /\ db.learningPath[2].resourcesStatus \in {"pending", "ready"}

(***************************************************************************)
(* C30.  Creating a plan stores it with the plan and every step `pending`  *)
(* and without resources, starts the run, and answers 201 with the         *)
(* handler's own document: the answer never waits for the run, and no      *)
(* state the run brings the stored plan into, `failed` included, changes   *)
(* the status or the body answered.                                        *)
(***************************************************************************)
C30_CreateAnswers ==
    [][/\ (hpc = "idle" /\ hpc' = "create") =>
              /\ AllPending(db') /\ hdoc' = db'
              /\ \E r \in Runs : Starts(r) /\ origin'[r] = "create"
       /\ hpc = "create" =>
              /\ ENABLED CreateAnswer
              /\ AllPending(hdoc)
              /\ hpc' = "create" => hdoc' = hdoc /\ answered' = "none"
              /\ hpc' # "create" => hpc' = "idle" /\ answered' = "201"
      ]_vars

\* the run started by the creation has failed and returned before the
\* request is answered; the answer is still to come
C30_Witness ==
    /\ hpc = "create" /\ answered = "none"
    /\ origin[1] = "create" /\ gpc[1] = "done"
    /\ db.resourcesStatus = "failed"
    /\ db.learningPath[1].resourcesStatus = "loading"
    /\ AllPending(hdoc)

(***************************************************************************)
(* C31.  As stated: a storage write that fails during a run does not end   *)
(* the run, which goes on with the remaining steps while only the stored   *)
(* record lags behind.  A save that fails is the step of a run that leaves *)
(* storage as it was and takes the run to a catch block; the statement     *)
(* says that this never is the plan-level one.                             *)
(* Amended: a save that fails inside a step's normal path takes the run to *)
(* the step's catch block, which stores the step `failed` with at most 3   *)
(* curated entries and goes on with the next step if its own save          *)
(* succeeds; a save of the plan's status that fails, and a save of the     *)
(* step's catch block that fails, take the run to the plan-level handler,  *)
(* after which no further step is attempted.                               *)
(***************************************************************************)
\* the step taken is a save of run r that was rejected by storage
SaveFails(r) ==
    /\ db' = db
    /\ \/ gpc[r] \in {"plan_loading", "finish"} /\ gpc'[r] = "catch_find"
       \/ gpc[r] \in {"step_begin", "step_save"} /\ gpc'[r] = "step_catch"
       \/ /\ gpc[r] = "step_catch" /\ gpc'[r] = "catch_find"
          /\ ~FallbackLookupThrows(doc[r].category)

C32_InOrder ==
    db.exists =>
        \A i \in 1..Len(db.learningPath) :
            LET st == db.learningPath[i].resourcesStatus
            IN  /\ st = "loading" => i = stepIdx[1]
                /\ i < stepIdx[1] => st \in {"ready", "failed"}
                /\ i > stepIdx[1] => st = "pending"

\* step 2 is being validated after step 1 was stored with its result
C32_Witness ==
    /\ gpc[1] = "validate" /\ stepIdx[1] = 2
    /\ db.learningPath[2].resourcesStatus = "loading"
    /\ db.learningPath[1].resourcesStatus \in {"ready", "failed"}
    /\ Len(db.learningPath[1].resources) > 0

(***************************************************************************)
(* C33.  A step is stored as `loading` before the generator is asked for   *)
(* its candidates and before any of its links is checked: while the run is *)
(* generating, validating or drawing fallbacks for a step, and when it     *)
(* saves the result, storage holds that step as `loading`.  A stored step  *)
(* never goes from `pending` to `ready` in one write.                      *)
(***************************************************************************)
AtWorkOnStep ==
    gpc[1] \in {"generate", "validate", "fallback", "step_save"} =>
        /\ db.learningPath[stepIdx[1]].resourcesStatus = "loading"
        /\ db.learningPath[stepIdx[1]].resources = <<>>

C33_LoadingFirst ==
    [][/\ AtWorkOnStep'
       /\ \A i \in 1..Len(db.learningPath) :
            (db.exists /\ db.learningPath[i].resourcesStatus = "pending")
                => db'.learningPath[i].resourcesStatus
                       \in {"pending", "loading", "failed"}
      ]_vars

\* the checker is at work on a candidate of step 2, stored as `loading`
C33_Witness ==
    /\ gpc[1] = "validate" /\ stepIdx[1] = 2
    /\ Len(generated[1]) = RequestedMin
    /\ db.learningPath[2].resourcesStatus = "loading"

(***************************************************************************)
(* C34.  The resources stored on a step by the normal path are the first 5 *)
(* elements of: the generated candidates that passed the check, in the     *)
(* order the generator returned them, followed by the curated entries      *)
(* drawn for the step that passed the check, in the order of the curated   *)
(* table.                                                                  *)
(***************************************************************************)
\* the k-th smallest index of v
Nth(v, k) == CHOOSE j \in v : Cardinality({q \in v : q < j}) = k - 1

\* the elements of s at the indices of v, by increasing index
InOrder(s, v) == [k \in 1..Cardinality(v) |-> s[Nth(v, k)]]

C34_StoredOrder ==
    \A i \in DOMAIN outcome[1] :
        EndedNormally(1, i) =>
            LET c     == checked[1][i]
                table == CuratedList(db.category)
                all   == InOrder(c.candidates, c.survivors)
                             \o InOrder(c.additional, c.fallbackSurvivors)
            IN  /\ c.survivors \subseteq 1..Len(c.candidates)
                /\ c.fallbackSurvivors \subseteq 1..Len(c.additional)
                /\ Len(c.additional) <= Len(table)
                /\ c.additional = SubSeq(table, 1, Len(c.additional))
                /\ db.learningPath[i].resources
                       = SubSeq(all, 1, Min(MaxPerStep, Len(all)))

\* two generated candidates, the second and the fourth, and two curated
\* entries, the first and the third of those drawn, were stored
C34_Witness ==
    /\ EndedNormally(1, 1)
    /\ checked[1][1].survivors = {2, 4}
    /\ checked[1][1].fallbackSurvivors = {1, 3}
    /\ Len(db.learningPath[1].resources) = 4
    /\ db.learningPath[1].resources[1] = checked[1][1].candidates[2]
    /\ db.learningPath[1].resources[1] # db.learningPath[1].resources[2]
    /\ db.learningPath[1].resources[3] # db.learningPath[1].resources[4]

(***************************************************************************)
(* C35.  The validator invokes the link checker exactly once per           *)
(* candidate, in the order of the list, whether or not two candidates have *)
(* the same URL: the invocations made so far are the URLs of a prefix of   *)
(* the list, and when the validator returns they are the URLs of the whole *)
(* list, so N candidates cause N invocations.                              *)
(***************************************************************************)
UrlsOf(list, n) == [k \in 1..n |-> list[k].url]

C35_OneCheckEach ==
    /\ Len(calls) <= Len(resources)
    /\ calls = UrlsOf(resources, Len(calls))
    /\ vpc = "done" => Len(calls) = Len(resources)

\* two candidates with the same URL were checked in different chunks and
\* the two checks gave different answers
C35_Witness ==
    /\ vpc = "done"
    /\ Len(resources) = 3 /\ concurrency = 2
    /\ resources[1].url = resources[3].url
    /\ Len(calls) = 3
    /\ verdict[1] # verdict[3]

(***************************************************************************)
(* C36.  As stated: in every stored state, under any sequence of create,   *)
(* run, retry, extend and add-step operations, a plan whose status is      *)
(* `ready` has no step that is `pending` or `loading`.                     *)
(***************************************************************************)
C36_ReadyPlanAttempted ==
    (db.exists /\ db.resourcesStatus = "ready") =>
        \A i \in 1..Len(db.learningPath) :
            db.learningPath[i].resourcesStatus \notin {"pending", "loading"}

(***************************************************************************)
(* C37.  As stated: every run that has stored plan status `loading` stores *)
(* a terminal plan status (`ready` or `failed`) before it ends, so that a  *)
(* plan is never left `loading` by a run that has ended.  Every call of a  *)
(* run returns, so every run ends; the statement is checked at its end.    *)
(* Amended: a run that has stored plan status `loading` ends with a        *)
(* terminal plan status stored, unless the reload or the write of its      *)
(* plan-level handler fails: that error is swallowed and the plan is left  *)
(* as it was, possibly `loading`.                                          *)
(***************************************************************************)
\* run r has stored the plan as `loading` (the loop index is set after it)
StoredLoading(r) == stepIdx[r] >= 1

C37_Original ==
    (gpc[1] = "done" /\ StoredLoading(1)) => db.resourcesStatus \in TerminalPlanStatus

C37_Amended ==
    [][(gpc[1] # "done" /\ gpc'[1] = "done" /\ StoredLoading(1)) =>
          \/ db'.resourcesStatus \in TerminalPlanStatus
          \/ /\ gpc[1] \in {"catch_find", "catch_save"}
             /\ db' = db
             /\ faulty'[1]
      ]_vars

\* the save of step 2's result and the save of its catch block were
\* rejected, the plan-level handler stored `failed`
C37_Witness ==
    /\ gpc[1] = "done" /\ StoredLoading(1) /\ faulty[1]
    /\ outcome[1] = <<"normal", "escaped">>
    /\ db.learningPath[2].resourcesStatus = "loading"
    /\ db.resourcesStatus = "failed"

C39_CancelledStaysCancelled == notif.cancelled => notif.status # "sent"

(***************************************************************************)
(* C40.  After any sequence of addActivity calls on a user-progress        *)
(* record, longestStreak >= currentStreak.                                 *)
(***************************************************************************)
C40_LongestAtLeastCurrent ==
    progress.calls > 0 => progress.longestStreak >= progress.currentStreak

====
